---------------------------- MODULE Spec2Model ----------------------------
(***************************************************************************)
(* A model of the PCF decoder of ibm-mq-statnacct: src/src/pcf_parser.py   *)
(* (PCFParser), src/src/mq_constants.py and the fallback extractor of      *)
(* src/src/enhanced_pcf_extractor.py (EnhancedPCFExtractor).               *)
(*                                                                         *)
(* Python values are modelled as follows.                                  *)
(*   bytes      a sequence of integers 0..255                              *)
(*   int        a pair [hi, lo] of 16-bit limbs, n = hi * 65536 + lo, so   *)
(*              that every unsigned 32-bit value is representable          *)
(*   str        a decoded text is a sequence of code points; a formatted   *)
(*              text (an f-string, a table entry) is a sequence of tokens  *)
(*   None       the record None                                            *)
(*   a call     [exc, val]: the exception that left the call ("" for a     *)
(*              normal return) and the value returned                      *)
(***************************************************************************)
EXTENDS Integers, Sequences, FiniteSets, TLC

VARIABLES
  pc,       \* "idle": no call in progress; "returned": the last call returned
  op,       \* the function of PCFParser / mq_constants that was called
  arg,      \* its arguments, with the description of how the buffer was encoded
  ret,      \* [exc, val]: the exception that left the call, or its return value
  calls,    \* the decoders that parse_message ran, in call order
  parser,   \* the attributes of the PCFParser instance
  first,    \* the call of extract_queue_operations the caller repeats: its
            \* message, its result, and whether the parser processed another
            \* message since (None: no call is being repeated)
  loop,     \* the loop of the last call of _parse_pcf_parameters or of
            \* _parse_structured_pcf: the offset each of its passes started
            \* at, the offset it ended with, and whether a pass left it
            \* with break
  collection,  \* the frame of main.single_collection while it runs: its
               \* position, args, reader and data (None: not running)
  monitoring   \* the frame of main.continuous_monitoring while it runs: its
               \* position, args, shutdown_requested, cycle_count (None: not
               \* running)

vars == <<pc, op, arg, ret, calls, parser, first, loop, collection, monitoring>>

---------------------------------------------------------------------------
(* Python values *)

None == [py |-> "None"]

Ok(v) == [exc |-> "", val |-> v]

Raise(e) == [exc |-> e, val |-> None]

Min(a, b) == IF a <= b THEN a ELSE b

\* the element of a one-element set: The({F(x) : x \in {e}}) is F(e) with e
\* evaluated once, before F
The(S) == CHOOSE x \in S : TRUE

\* s[a:b] for 0 <= a: the slice is cut at the end of s and never fails
Slice(s, a, b) ==
  LET e == Min(b, Len(s))
  IN  IF a >= e THEN <<>> ELSE SubSeq(s, a + 1, e)

\* the int n, 0 <= n < 2^31, as a pair of limbs
Long(n) == [hi |-> n \div 65536, lo |-> n % 65536]

\* v <= n, for an int v and a small int n
LongAtMost(v, n) == v.hi <= 32767 /\ v.hi * 65536 + v.lo <= n

\* the value of an int known to be below 2^31
Small(v) == v.hi * 65536 + v.lo

\* the key of a dict of small ints that the int v hits (-1: no key)
KeyOf(v) == IF v.hi <= 32767 THEN v.hi * 65536 + v.lo ELSE -1

\* a str is a sequence of tokens; a str literal of the source is one token
Literal(s) == <<s>>

\* d.get(key, default) for a dict literal of str literals given by its entries
\* in source order: a key written twice keeps the value written last
DictGet(entries, key, default) ==
  LET hits == {i \in DOMAIN entries : entries[i][1] = key}
  IN  IF hits = {} THEN default
      ELSE Literal(entries[CHOOSE i \in hits : \A j \in hits : j <= i][2])

Digit == <<"0", "1", "2", "3", "4", "5", "6", "7", "8", "9">>

HexDigit == <<"0", "1", "2", "3", "4", "5", "6", "7",
              "8", "9", "A", "B", "C", "D", "E", "F">>

\* v // 10 and v % 10 on limbs
DivMod10(v) ==
  LET t == (v.hi % 10) * 65536 + v.lo
  IN  [q |-> [hi |-> v.hi \div 10, lo |-> t \div 10], r |-> t % 10]

\* f'{v}' for an int v >= 0
RECURSIVE FormatDecimal(_)
FormatQuotRem(d) ==
  IF d.q = Long(0) THEN <<Digit[d.r + 1]>>
  ELSE Append(FormatDecimal(d.q), Digit[d.r + 1])

FormatDecimal(v) == FormatQuotRem(DivMod10(v))

\* the digits of bytes.hex()
LowerHexDigit == <<"0", "1", "2", "3", "4", "5", "6", "7",
                   "8", "9", "a", "b", "c", "d", "e", "f">>

Hex4(n) == <<HexDigit[(n \div 4096) + 1], HexDigit[((n \div 256) % 16) + 1],
             HexDigit[((n \div 16) % 16) + 1], HexDigit[(n % 16) + 1]>>

\* f'{v:08x}': the digits in lowercase
FormatHex08x(v) ==
  [i \in 1..8 |-> LowerHexDigit[(((IF i <= 4 THEN v.hi ELSE v.lo) \div (16 ^ ((8 - i) % 4))) % 16) + 1]]

\* f'{v:08X}' for 0 <= v < 2^32
FormatHex08X(v) == Hex4(v.hi) \o Hex4(v.lo)

---------------------------------------------------------------------------
(* struct and codecs *)

\* struct.unpack('>nL', b): n unsigned big-endian 32-bit integers;
\* struct.error unless b holds exactly 4 * n bytes
struct_unpack(n, b) ==
  IF Len(b) # 4 * n THEN Raise("struct.error")
  ELSE Ok([i \in 1..n |-> [hi |-> b[4 * i - 3] * 256 + b[4 * i - 2],
                           lo |-> b[4 * i - 1] * 256 + b[4 * i]]])

IsCont(b, i) == i <= Len(b) /\ b[i] >= 128 /\ b[i] <= 191

InRange(b, i, lo, hi) == i <= Len(b) /\ b[i] >= lo /\ b[i] <= hi

\* the length of the well-formed UTF-8 sequence that starts at b[i] (0: none)
Utf8SeqLen(b, i) ==
  LET c == b[i]
  IN  IF c < 128 THEN 1
      ELSE IF c >= 194 /\ c <= 223 /\ IsCont(b, i + 1) THEN 2
      ELSE IF c = 224 /\ InRange(b, i + 1, 160, 191) /\ IsCont(b, i + 2) THEN 3
      ELSE IF c = 237 /\ InRange(b, i + 1, 128, 159) /\ IsCont(b, i + 2) THEN 3
      ELSE IF c >= 225 /\ c <= 239 /\ c # 237
              /\ IsCont(b, i + 1) /\ IsCont(b, i + 2) THEN 3
      ELSE IF c = 240 /\ InRange(b, i + 1, 144, 191)
              /\ IsCont(b, i + 2) /\ IsCont(b, i + 3) THEN 4
      ELSE IF c >= 241 /\ c <= 243 /\ IsCont(b, i + 1)
              /\ IsCont(b, i + 2) /\ IsCont(b, i + 3) THEN 4
      ELSE IF c = 244 /\ InRange(b, i + 1, 128, 143)
              /\ IsCont(b, i + 2) /\ IsCont(b, i + 3) THEN 4
      ELSE 0

Utf8CodePoint(b, i, n) ==
  IF n = 1 THEN b[i]
  ELSE IF n = 2 THEN (b[i] - 192) * 64 + (b[i + 1] - 128)
  ELSE IF n = 3 THEN (b[i] - 224) * 4096 + (b[i + 1] - 128) * 64 + (b[i + 2] - 128)
  ELSE (b[i] - 240) * 262144 + (b[i + 1] - 128) * 4096
       + (b[i + 2] - 128) * 64 + (b[i + 3] - 128)

\* the positions where a well-formed sequence starts. A well-formed sequence
\* takes only continuation bytes after its first byte, and a continuation
\* byte starts none: the decoder, which goes from one sequence to the byte
\* after it, comes to every one of these positions
Utf8Starts(b) == {i \in 1..Len(b) : Utf8SeqLen(b, i) > 0}

NthOf(starts, k) == CHOOSE i \in starts : Cardinality({j \in starts : j <= i}) = k

\* the code points of the sequences that start at starts, in their order
DecodeUtf8Starts(b, starts) ==
  [k \in 1..Cardinality(starts) |->
     Utf8CodePoint(b, NthOf(starts, k), Utf8SeqLen(b, NthOf(starts, k)))]

\* b[i] is part of a well-formed sequence
InUtf8Seq(b, i) ==
  \E j \in 1..i : Utf8SeqLen(b, j) > 0 /\ i < j + Utf8SeqLen(b, j)

\* b.decode('utf-8'): the code points, or UnicodeDecodeError when a byte is
\* part of no well-formed sequence
decode_utf8(b) ==
  IF \A i \in 1..Len(b) : InUtf8Seq(b, i)
  THEN Ok(DecodeUtf8Starts(b, Utf8Starts(b)))
  ELSE Raise("UnicodeDecodeError")

\* b.decode('latin-1'): every byte is the code point of its value
decode_latin1(b) == [i \in 1..Len(b) |-> b[i]]

\* s.rstrip('\x00')
\* s.rstrip('\x00 '): also the trailing spaces are dropped
RECURSIVE rstrip_nul_and_space(_)
rstrip_nul_and_space(s) ==
  IF s # <<>> /\ s[Len(s)] \in {0, 32}
  THEN rstrip_nul_and_space(SubSeq(s, 1, Len(s) - 1)) ELSE s

RECURSIVE rstrip_nul(_)
rstrip_nul(s) ==
  IF s # <<>> /\ s[Len(s)] = 0 THEN rstrip_nul(SubSeq(s, 1, Len(s) - 1)) ELSE s

---------------------------------------------------------------------------
(* PCFParser: constants *)

PCF_HEADER_SIZE == 36
PCF_PARAMETER_HEADER_SIZE == 8

MQCFT_COMMAND == 1
MQCFT_RESPONSE == 2
MQCFT_INTEGER == 3
MQCFT_STRING == 4
MQCFT_INTEGER_LIST == 5
MQCFT_EVENT == 7
MQCFT_BYTE_STRING == 9
MQCFT_REPORT == 11
MQCFT_STATISTICS == 21
MQCFT_ACCOUNTING == 22

---------------------------------------------------------------------------
(* mq_constants: the parameter ids and the id -> name table *)

MQCA_Q_NAME == 2016
MQCA_Q_MGR_NAME == 2002
MQCA_CHANNEL_NAME == 3501
MQCA_CONNECTION_NAME == 3502
MQCA_APPL_NAME == 2024
MQIA_Q_TYPE == 20
MQIA_CURRENT_Q_DEPTH == 3
MQIA_OPEN_INPUT_COUNT == 65
MQIA_OPEN_OUTPUT_COUNT == 66
MQIA_HIGH_Q_DEPTH == 36
MQIA_MSG_DEQ_COUNT == 38
MQIA_MSG_ENQ_COUNT == 37
MQIACH_MSGS == 1501
MQIACH_BYTES == 1502
MQIACH_BATCHES == 1503
MQIAMO_CLOSES == 4
MQIAMO_PUTS == 17
MQIAMO_GETS == 18
MQIAMO_COMMITS == 12
MQIAMO_BACKOUTS == 13
MQCACF_COMMAND_TIME == 3603
MQIACF_SEQUENCE_NUMBER == 1001

\* mq_constants.PARAMETER_NAMES: the entries of the dict literal, in source order.
PARAMETER_NAMES ==
  <<
     <<MQCA_Q_NAME, "MQCA_Q_NAME">>,
     <<MQCA_Q_MGR_NAME, "MQCA_Q_MGR_NAME">>,
     <<MQCA_CHANNEL_NAME, "MQCA_CHANNEL_NAME">>,
     <<MQCA_CONNECTION_NAME, "MQCA_CONNECTION_NAME">>,
     <<MQCA_APPL_NAME, "MQCA_APPL_NAME">>,
     <<MQIA_Q_TYPE, "MQIA_Q_TYPE">>,
     <<MQIA_CURRENT_Q_DEPTH, "MQIA_CURRENT_Q_DEPTH">>,
     <<MQIA_OPEN_INPUT_COUNT, "MQIA_OPEN_INPUT_COUNT">>,
     <<MQIA_OPEN_OUTPUT_COUNT, "MQIA_OPEN_OUTPUT_COUNT">>,
     <<MQIA_HIGH_Q_DEPTH, "MQIA_HIGH_Q_DEPTH">>,
     <<MQIA_MSG_DEQ_COUNT, "MQIA_MSG_DEQ_COUNT">>,
     <<MQIA_MSG_ENQ_COUNT, "MQIA_MSG_ENQ_COUNT">>,
     <<MQIACH_MSGS, "MQIACH_MSGS">>,
     <<MQIACH_BYTES, "MQIACH_BYTES">>,
     <<MQIACH_BATCHES, "MQIACH_BATCHES">>,
     <<10003, "MQIAMO_OPENS">>,
     <<MQIAMO_CLOSES, "MQIAMO_CLOSES">>,
     <<MQIAMO_PUTS, "MQIAMO_PUTS">>,
     <<MQIAMO_GETS, "MQIAMO_GETS">>,
     <<MQIAMO_COMMITS, "MQIAMO_COMMITS">>,
     <<MQIAMO_BACKOUTS, "MQIAMO_BACKOUTS">>,
     <<MQCACF_COMMAND_TIME, "MQCACF_COMMAND_TIME">>,
     <<MQIACF_SEQUENCE_NUMBER, "MQIACF_SEQUENCE_NUMBER">>,
     <<2001, "MQCA_Q_NAME_ALT">>,
     <<2003, "MQCA_PROCESS_NAME">>,
     <<2004, "MQCA_TRIGGER_DATA">>,
     <<2005, "MQCA_Q_DESC">>,
     <<2006, "MQCA_CREATION_DATE">>,
     <<2007, "MQCA_CREATION_TIME">>,
     <<2008, "MQCA_ALTERATION_DATE">>,
     <<2009, "MQCA_ALTERATION_TIME">>,
     <<2010, "MQCA_BACKOUT_REQ_Q_NAME">>,
     <<2011, "MQCA_INITIATION_Q_NAME">>,
     <<2012, "MQCA_DEAD_LETTER_Q_NAME">>,
     <<2013, "MQCA_DEF_XMIT_Q_NAME">>,
     <<2014, "MQCA_CF_STRUC_NAME">>,
     <<2015, "MQCA_QSG_NAME">>,
     <<2017, "MQCA_XCFGNAME">>,
     <<2018, "MQCA_XCFMNAME">>,
     <<2019, "MQCA_COMMAND_MQSC">>,
     <<2020, "MQCA_Q_MGR_IDENTIFIER">>,
     <<2021, "MQCA_CLUSTER_NAME">>,
     <<2022, "MQCA_CLUSTER_NAMELIST">>,
     <<2023, "MQCA_CLUSTER_Q_MGR_NAME">>,
     <<1, "MQIA_Q_TYPE_ALT">>,
     <<2, "MQIA_MAX_Q_DEPTH">>,
     <<4, "MQIA_BACKOUT_THRESHOLD">>,
     <<5, "MQIA_SHAREABILITY">>,
     <<6, "MQIA_DEF_SHAREABILITY">>,
     <<7, "MQIA_HARDEN_GET_BACKOUT">>,
     <<8, "MQIA_MSG_DELIVERY_SEQUENCE">>,
     <<9, "MQIA_RETENTION_INTERVAL">>,
     <<10, "MQIA_Q_DEPTH_HIGH_EVENT">>,
     <<11, "MQIA_Q_DEPTH_LOW_EVENT">>,
     <<12, "MQIA_Q_SERVICE_INTERVAL_EVENT">>,
     <<13, "MQIA_Q_DEPTH_MAX_EVENT">>,
     <<14, "MQIA_CURRENT_Q_DEPTH_ALT">>,
     <<15, "MQIA_OPEN_INPUT_COUNT_ALT">>,
     <<16, "MQIA_OPEN_OUTPUT_COUNT_ALT">>,
     <<17, "MQIA_HIGH_Q_DEPTH_ALT">>,
     <<18, "MQIA_MSG_ENQ_COUNT_ALT">>,
     <<19, "MQIA_MSG_DEQ_COUNT_ALT">>,
     <<1501, "MQIACH_CHANNEL_TYPE">>,
     <<1502, "MQIACH_TRANSPORT_TYPE">>,
     <<1503, "MQIACH_DATA_COUNT">>,
     <<1504, "MQIACH_NAME_COUNT">>,
     <<1505, "MQIACH_MAX_MSG_LENGTH">>,
     <<1506, "MQIACH_BATCH_SIZE">>,
     <<1507, "MQIACH_BATCH_INTERVAL">>,
     <<1508, "MQIACH_LONG_RETRY_COUNT">>,
     <<1509, "MQIACH_LONG_RETRY_INTERVAL">>,
     <<1510, "MQIACH_SHORT_RETRY_COUNT">>,
     <<1511, "MQIACH_SHORT_RETRY_INTERVAL">>,
     <<1512, "MQIACH_DISC_INTERVAL">>,
     <<1513, "MQIACH_THRESHOLD">>,
     <<1514, "MQIACH_PRIORITY">>,
     <<1515, "MQIACH_DATA_CONVERSION">>
  >>

\* PCFParser.get_parameter_name: the entries of its param_names dict literal, in source order.
param_names ==
  <<
     <<2001, "MQCA_Q_NAME">>,
     <<2002, "MQCA_Q_MGR_NAME">>,
     <<2003, "MQCA_PROCESS_NAME">>,
     <<2004, "MQCA_TRIGGER_DATA">>,
     <<2005, "MQCA_Q_DESC">>,
     <<2006, "MQCA_CREATION_DATE">>,
     <<2007, "MQCA_CREATION_TIME">>,
     <<2008, "MQCA_ALTERATION_DATE">>,
     <<2009, "MQCA_ALTERATION_TIME">>,
     <<2010, "MQCA_BACKOUT_REQ_Q_NAME">>,
     <<2011, "MQCA_INITIATION_Q_NAME">>,
     <<2012, "MQCA_DEAD_LETTER_Q_NAME">>,
     <<2013, "MQCA_DEF_XMIT_Q_NAME">>,
     <<2014, "MQCA_CF_STRUC_NAME">>,
     <<2015, "MQCA_QSG_NAME">>,
     <<2016, "MQCA_STORAGE_CLASS">>,
     <<2017, "MQCA_XCFGNAME">>,
     <<2018, "MQCA_XCFMNAME">>,
     <<2019, "MQCA_COMMAND_MQSC">>,
     <<2020, "MQCA_Q_MGR_IDENTIFIER">>,
     <<2021, "MQCA_CLUSTER_NAME">>,
     <<2022, "MQCA_CLUSTER_NAMELIST">>,
     <<2023, "MQCA_CLUSTER_Q_MGR_NAME">>,
     <<2024, "MQCA_CLUS_CHL_NAME">>,
     <<2025, "MQCA_AUTH_INFO_NAME">>,
     <<2026, "MQCA_AUTH_INFO_DESC">>,
     <<2027, "MQCA_LDAP_USER_NAME">>,
     <<2028, "MQCA_AUTH_INFO_CONN_NAME">>,
     <<2029, "MQCA_LDAP_PASSWORD">>,
     <<2030, "MQCA_SSL_CRL_NAMELIST">>,
     <<2031, "MQCA_SSL_CRYPTO_HARDWARE">>,
     <<2032, "MQCA_SSL_KEY_REPOSITORY">>,
     <<2033, "MQCA_SSL_KEY_MEMBER">>,
     <<2034, "MQCA_SSL_CIPHER_SPEC">>,
     <<2035, "MQCA_SSL_PEER_NAME">>,
     <<2036, "MQCA_SSL_CLIENT_AUTH">>,
     <<3501, "MQCACH_CHANNEL_NAME">>,
     <<3502, "MQCACH_DESC">>,
     <<3503, "MQCACH_MODE_NAME">>,
     <<3504, "MQCACH_TP_NAME">>,
     <<3505, "MQCACH_CONNECTION_NAME">>,
     <<3506, "MQCACH_XMIT_Q_NAME">>,
     <<3507, "MQCACH_CLUSTER_NAME">>,
     <<3508, "MQCACH_CLUSTER_NAMELIST">>,
     <<3509, "MQCACH_MODENAME">>,
     <<3510, "MQCACH_USER_ID">>,
     <<3511, "MQCACH_PASSWORD">>,
     <<3512, "MQCACH_LOCAL_ADDRESS">>,
     <<3513, "MQCACH_LOCAL_NAME">>,
     <<3514, "MQCACH_LAST_MSG_TIME">>,
     <<3515, "MQCACH_LAST_MSG_DATE">>,
     <<3516, "MQCACH_MCA_NAME">>,
     <<3517, "MQCACH_MCA_TYPE">>,
     <<3518, "MQCACH_MCA_USER_ID">>,
     <<3519, "MQCACH_NETWORK_PRIORITY">>,
     <<3520, "MQCACH_SEQUENCE_NUMBER_WRAP">>,
     <<3521, "MQCACH_MAX_MSG_LENGTH">>,
     <<3522, "MQCACH_PUT_AUTHORITY">>,
     <<3523, "MQCACH_DATA_CONVERSION">>,
     <<3524, "MQCACH_SECURITY_EXIT">>,
     <<3525, "MQCACH_MSG_EXIT">>,
     <<3526, "MQCACH_SEND_EXIT">>,
     <<3527, "MQCACH_RECEIVE_EXIT">>,
     <<3528, "MQCACH_SEQ_NUMBER_WRAP">>,
     <<3529, "MQCACH_MAX_MSG_LENGTH">>,
     <<3530, "MQCACH_PUT_AUTHORITY">>,
     <<3531, "MQCACH_DATA_CONVERSION">>,
     <<3532, "MQCACH_SECURITY_EXIT_NAME">>,
     <<3533, "MQCACH_MSG_EXIT_NAME">>,
     <<3534, "MQCACH_SEND_EXIT_NAME">>,
     <<3535, "MQCACH_RECEIVE_EXIT_NAME">>,
     <<3536, "MQCACH_CHANNEL_AUTO_DEF_EXIT">>,
     <<3537, "MQCACH_CHANNEL_AUTO_DEF_EVENT">>,
     <<3538, "MQCACH_SSL_CIPHER_SPEC">>,
     <<3539, "MQCACH_SSL_PEER_NAME">>,
     <<3540, "MQCACH_SSL_CLIENT_AUTH">>,
     <<1, "MQIA_Q_TYPE">>,
     <<2, "MQIA_MAX_Q_DEPTH">>,
     <<3, "MQIA_MAX_MSG_LENGTH">>,
     <<4, "MQIA_BACKOUT_THRESHOLD">>,
     <<5, "MQIA_SHAREABILITY">>,
     <<6, "MQIA_DEF_SHAREABILITY">>,
     <<7, "MQIA_HARDEN_GET_BACKOUT">>,
     <<8, "MQIA_MSG_DELIVERY_SEQUENCE">>,
     <<9, "MQIA_RETENTION_INTERVAL">>,
     <<10, "MQIA_Q_DEPTH_HIGH_EVENT">>,
     <<11, "MQIA_Q_DEPTH_LOW_EVENT">>,
     <<12, "MQIA_Q_SERVICE_INTERVAL_EVENT">>,
     <<13, "MQIA_Q_DEPTH_MAX_EVENT">>,
     <<14, "MQIA_CURRENT_Q_DEPTH">>,
     <<15, "MQIA_OPEN_INPUT_COUNT">>,
     <<16, "MQIA_OPEN_OUTPUT_COUNT">>,
     <<17, "MQIA_HIGH_Q_DEPTH">>,
     <<18, "MQIA_MSG_ENQ_COUNT">>,
     <<19, "MQIA_MSG_DEQ_COUNT">>,
     <<20, "MQIA_TIME_SINCE_RESET">>,
     <<21, "MQIA_Q_DEPTH_HIGH_LIMIT">>,
     <<22, "MQIA_Q_DEPTH_LOW_LIMIT">>,
     <<23, "MQIA_Q_SERVICE_INTERVAL">>,
     <<24, "MQIA_INHIBIT_PUT">>,
     <<25, "MQIA_INHIBIT_GET">>,
     <<26, "MQIA_TRIGGER_CONTROL">>,
     <<27, "MQIA_TRIGGER_TYPE">>,
     <<28, "MQIA_TRIGGER_DEPTH">>,
     <<29, "MQIA_TRIGGER_MSG_PRIORITY">>,
     <<30, "MQIA_DEF_PRIORITY">>,
     <<31, "MQIA_DEF_PERSISTENCE">>,
     <<32, "MQIA_DEF_INPUT_OPEN_OPTION">>,
     <<33, "MQIA_DEF_BIND">>,
     <<34, "MQIA_MAX_HANDLES">>,
     <<35, "MQIA_MAX_UNCOMMITTED_MSGS">>,
     <<36, "MQIA_SYNC_POINT">>,
     <<37, "MQIA_DEFSOPT">>,
     <<38, "MQIA_DEF_READ_AHEAD">>,
     <<39, "MQIA_DEF_PROPERTY_CONTROL">>,
     <<40, "MQIA_PROPERTY_CONTROL">>,
     <<41, "MQIA_PAGESET_ID">>,
     <<42, "MQIA_USAGE">>,
     <<43, "MQIA_DEFINITION_TYPE">>,
     <<44, "MQIA_CLUSTER_PUB_ROUTE">>,
     <<45, "MQIA_CLUSTER_SUB_ROUTE">>,
     <<46, "MQIA_CLUSTER_WORKLOAD_USEQ">>,
     <<47, "MQIA_CLUSTER_WORKLOAD_RANK">>,
     <<48, "MQIA_DISTL_BIND">>,
     <<49, "MQIA_Q_MGR_STATUS">>,
     <<50, "MQIA_PLATFORM">>,
     <<51, "MQIA_PUT_COUNT">>,
     <<52, "MQIA_GET_COUNT">>,
     <<53, "MQIA_BROWSE_COUNT">>,
     <<54, "MQIA_PUT1_COUNT">>,
     <<55, "MQIA_CB_COUNT">>,
     <<56, "MQIA_CTL_COUNT">>,
     <<57, "MQIA_INQ_COUNT">>,
     <<58, "MQIA_SET_COUNT">>,
     <<59, "MQIA_CONNECT_COUNT">>,
     <<60, "MQIA_DISC_COUNT">>,
     <<61, "MQIA_OPEN_COUNT">>,
     <<62, "MQIA_CLOSE_COUNT">>,
     <<63, "MQIA_SUB_COUNT">>,
     <<64, "MQIA_SUBRQ_COUNT">>,
     <<65, "MQIA_CHL_COUNT">>,
     <<66, "MQIA_CHL_TOTAL_BYTES">>,
     <<67, "MQIA_CHL_TIME_INDICATOR">>,
     <<68, "MQIA_CHL_BATCH_SIZE">>,
     <<69, "MQIA_CHL_BATCH_INTERVAL">>,
     <<70, "MQIA_CHL_LONG_RETRY_COUNT">>,
     <<71, "MQIA_CHL_LONG_RETRY_INTERVAL">>,
     <<72, "MQIA_CHL_SHORT_RETRY_COUNT">>,
     <<73, "MQIA_CHL_SHORT_RETRY_INTERVAL">>,
     <<74, "MQIA_CHL_MCA_TYPE">>,
     <<75, "MQIA_CHL_TRANSPORT_TYPE">>,
     <<76, "MQIA_CHL_DATA_COUNT">>,
     <<77, "MQIA_CHL_MAX_MSG_LENGTH">>,
     <<78, "MQIA_CHL_NETWORK_PRIORITY">>,
     <<79, "MQIA_CHL_SEQUENCE_NUMBER_WRAP">>,
     <<80, "MQIA_CHL_PUT_AUTHORITY">>,
     <<1501, "MQIACH_CHANNEL_TYPE">>,
     <<1502, "MQIACH_TRANSPORT_TYPE">>,
     <<1503, "MQIACH_DATA_COUNT">>,
     <<1504, "MQIACH_NAME_COUNT">>,
     <<1505, "MQIACH_MAX_MSG_LENGTH">>,
     <<1506, "MQIACH_BATCH_SIZE">>,
     <<1507, "MQIACH_BATCH_INTERVAL">>,
     <<1508, "MQIACH_LONG_RETRY_COUNT">>,
     <<1509, "MQIACH_LONG_RETRY_INTERVAL">>,
     <<1510, "MQIACH_SHORT_RETRY_COUNT">>,
     <<1511, "MQIACH_SHORT_RETRY_INTERVAL">>,
     <<1512, "MQIACH_DISC_INTERVAL">>,
     <<1513, "MQIACH_THRESHOLD">>,
     <<1514, "MQIACH_PRIORITY">>,
     <<1515, "MQIACH_DATA_CONVERSION">>,
     <<1516, "MQIACH_SECURITY_EXIT_COUNT">>,
     <<1517, "MQIACH_MSG_EXIT_COUNT">>,
     <<1518, "MQIACH_SEND_EXIT_COUNT">>,
     <<1519, "MQIACH_RECEIVE_EXIT_COUNT">>,
     <<1520, "MQIACH_CHANNEL_INSTANCE_TYPE">>,
     <<1521, "MQIACH_CHANNEL_INSTANCE_ATTRS">>,
     <<1522, "MQIACH_SSL_CLIENT_AUTH">>,
     <<1523, "MQIACH_KEEP_ALIVE_INTERVAL">>,
     <<1524, "MQIACH_LOCAL_ADDRESS">>,
     <<1525, "MQIACH_BATCH_HB">>,
     <<1526, "MQIACH_HB_INTERVAL">>,
     <<1527, "MQIACH_SHORT_TIMER">>,
     <<1528, "MQIACH_BATCH_DATA_LIMIT">>,
     <<1529, "MQIACH_FAST_PATH">>,
     <<1530, "MQIACH_DEF_RECONNECT">>,
     <<1531, "MQIACH_CHANNEL_STATUS">>,
     <<1532, "MQIACH_INDOUBT_STATUS">>,
     <<1533, "MQIACH_LAST_SEQ_NUMBER">>,
     <<1534, "MQIACH_LAST_SEQUENCE_NUMBER">>,
     <<1535, "MQIACH_CURRENT_SEQ_NUMBER">>,
     <<1536, "MQIACH_CURRENT_SEQUENCE_NUMBER">>,
     <<1537, "MQIACH_SSL_RETURN_CODE">>,
     <<1538, "MQIACH_MSGS">>,
     <<1539, "MQIACH_BYTES_SENT">>,
     <<1540, "MQIACH_BYTES_RECEIVED">>,
     <<1541, "MQIACH_BATCHES">>,
     <<1542, "MQIACH_BUFFERS_SENT">>,
     <<1543, "MQIACH_BUFFERS_RECEIVED">>,
     <<1544, "MQIACH_LONG_RETRIES_LEFT">>,
     <<1545, "MQIACH_SHORT_RETRIES_LEFT">>,
     <<1546, "MQIACH_MCA_STATUS">>,
     <<1547, "MQIACH_STOP_REQUESTED">>,
     <<1548, "MQIACH_MR_COUNT">>,
     <<1549, "MQIACH_MR_INTERVAL">>,
     <<842019381, "MQIA_ACCOUNTING_CONN_OVERRIDE">>,
     <<842019382, "MQIA_ACCOUNTING_INTERVAL">>,
     <<842019383, "MQIA_ACTIVITY_RECORDING">>,
     <<842019384, "MQIA_ADOPTNEWMCA_CHECK">>,
     <<842019385, "MQIA_ADOPTNEWMCA_TYPE">>,
     <<842019386, "MQIA_ADOPTNEWMCA_INTERVAL">>,
     <<842019387, "MQIA_TRACE_ROUTE_RECORDING">>,
     <<842019388, "MQIA_STATISTICS_AUTO_CLUSSDR">>,
     <<842019389, "MQIA_STATISTICS_CHANNEL">>,
     <<842019390, "MQIA_STATISTICS_INTERVAL">>,
     <<842019391, "MQIA_STATISTICS_MQI">>,
     <<842019392, "MQIA_STATISTICS_Q">>,
     <<167772161, "MQCA_APPL_NAME">>,
     <<167772162, "MQCA_APPL_IDENTITY_DATA">>,
     <<167772163, "MQCA_ENV_DATA">>,
     <<167772164, "MQCA_USER_DATA">>,
     <<167772165, "MQCA_ACCOUNTING_TOKEN">>,
     <<167772166, "MQCA_CONN_TAG">>,
     <<301989889, "MQIA_COMMAND_LEVEL">>,
     <<301989890, "MQIA_Q_MGR_STATUS">>,
     <<301989891, "MQIA_UNIT_OF_WORK_SIZE">>,
     <<301989892, "MQIA_ACTIVE_CHANNELS">>,
     <<301989893, "MQIA_ADOPTNEWMCA_ADVISE">>,
     <<301989894, "MQIA_ADOPTNEWMCA_CHECK">>,
     <<301989895, "MQIA_ADOPTNEWMCA_TYPE">>,
     <<536870912, "MQIA_PUT_TIME">>,
     <<536870913, "MQIA_GET_TIME">>,
     <<536870914, "MQIA_BROWSE_TIME">>,
     <<536870915, "MQIA_COMMIT_TIME">>,
     <<536870916, "MQIA_ROLLBACK_TIME">>,
     <<671088640, "MQIA_PUT_BYTES">>,
     <<671088641, "MQIA_GET_BYTES">>,
     <<671088642, "MQIA_BROWSE_BYTES">>,
     <<671088643, "MQIA_PUT_MEAN_SIZE">>,
     <<671088644, "MQIA_GET_MEAN_SIZE">>
  >>

---------------------------------------------------------------------------
(* The name resolvers *)

\* f'UNKNOWN_PARAM_{param_id}_0x{param_id:08X}'
UnknownParamName(param_id) ==
  <<"UNKNOWN_PARAM_">> \o FormatDecimal(param_id) \o <<"_0x">> \o FormatHex08X(param_id)

\* mq_constants.get_parameter_name(param_id)
constants_get_parameter_name(param_id) ==
  DictGet(PARAMETER_NAMES, KeyOf(param_id), UnknownParamName(param_id))

\* PCFParser.get_parameter_name(param_id)
get_parameter_name(param_id) ==
  DictGet(param_names, KeyOf(param_id), UnknownParamName(param_id))

---------------------------------------------------------------------------
(* PCFParser: the header decoder *)

type_map ==
  << <<MQCFT_STATISTICS, "statistics">>,
     <<MQCFT_ACCOUNTING, "accounting">>,
     <<MQCFT_EVENT, "event">>,
     <<MQCFT_COMMAND, "command">>,
     <<MQCFT_RESPONSE, "response">>,
     <<MQCFT_REPORT, "report">> >>

\* PCFParser._determine_message_type(structure_type)
_determine_message_type(structure_type) ==
  DictGet(type_map, KeyOf(structure_type),
          <<"unknown_type_">> \o FormatDecimal(structure_type))

\* the header dict that _parse_pcf_header builds from the nine unpacked values
HeaderDict(values) ==
  [structure_type     |-> values[1],
   structure_length   |-> values[2],
   version            |-> values[3],
   command            |-> values[4],
   message_seq_number |-> values[5],
   control            |-> values[6],
   completion_code    |-> values[7],
   reason_code        |-> values[8],
   parameter_count    |-> values[9],
   message_type       |-> _determine_message_type(values[1])]

\* _parse_pcf_header after struct.unpack('>9L', header_bytes) ended as u:
\* struct.error is caught and None returned
HeaderFromUnpacked(u) ==
  IF u.exc = "struct.error" THEN Ok(None) ELSE Ok(HeaderDict(u.val))

\* PCFParser._parse_pcf_header(header_bytes)
_parse_pcf_header(header_bytes) == HeaderFromUnpacked(struct_unpack(9, header_bytes))

---------------------------------------------------------------------------
(* PCFParser: the parameter decoders *)

\* the values of a parameter: an int, a str (decoded text or formatted
\* tokens) or a list of ints
IntValue(v) == [kind |-> "int", int |-> v, text |-> <<>>, toks |-> <<>>, list |-> <<>>]

TextValue(t) == [kind |-> "str", int |-> Long(0), text |-> t, toks |-> <<>>, list |-> <<>>]

TokValue(t) == [kind |-> "str", int |-> Long(0), text |-> <<>>, toks |-> t, list |-> <<>>]

ListValue(l) == [kind |-> "list", int |-> Long(0), text |-> <<>>, toks |-> <<>>, list |-> l]

\* _parse_integer_parameter after struct.unpack('>L', param_bytes[8:12]) ended as u
IntegerFromUnpacked(u) ==
  IF u.exc # "" THEN Raise(u.exc)
  ELSE Ok([value |-> IntValue(u.val[1]), total_length |-> 12])

\* an integer decoder that reads the four bytes before the value
_parse_integer_parameter_misplaced(param_bytes) ==
  IF Len(param_bytes) >= 12
  THEN IntegerFromUnpacked(struct_unpack(1, Slice(param_bytes, 4, 8)))
  ELSE Ok([value |-> IntValue(Long(0)), total_length |-> 12])

\* PCFParser._parse_integer_parameter(param_bytes)
_parse_integer_parameter(param_bytes) ==
  IF Len(param_bytes) >= 12
  THEN IntegerFromUnpacked(struct_unpack(1, Slice(param_bytes, 8, 12)))
  ELSE Ok([value |-> IntValue(Long(0)), total_length |-> 12])

\* a string decoder without the except clause: the UnicodeDecodeError leaves it
StringFromDecodedStrict(body, d, total_length) ==
  IF d.exc # "" THEN Raise(d.exc)
  ELSE Ok([value |-> TextValue(rstrip_nul(d.val)), total_length |-> total_length])

\* the try / except UnicodeDecodeError of _parse_string_parameter, d being
\* the end of body.decode('utf-8')
StringFromDecoded(body, d, total_length) ==
  IF d.exc = "UnicodeDecodeError"
  THEN Ok([value |-> TextValue(rstrip_nul(decode_latin1(body))),
           total_length |-> total_length])
  ELSE Ok([value |-> TextValue(rstrip_nul(d.val)), total_length |-> total_length])

StringBody(body, total_length) == StringFromDecoded(body, decode_utf8(body), total_length)

\* _parse_string_parameter after struct.unpack('>L', param_bytes[8:12]) ended as u
StringFromUnpacked(param_bytes, u) ==
  IF u.exc # "" THEN Raise(u.exc)
  \* len(param_bytes) >= 12 + str_length
  ELSE IF LongAtMost(u.val[1], Len(param_bytes) - 12)
  THEN StringBody(Slice(param_bytes, 12, 12 + Small(u.val[1])), 12 + Small(u.val[1]))
  ELSE Ok([value |-> TextValue(<<>>), total_length |-> 12])

\* PCFParser._parse_string_parameter(param_bytes)
_parse_string_parameter(param_bytes) ==
  IF Len(param_bytes) >= 12
  THEN StringFromUnpacked(param_bytes, struct_unpack(1, Slice(param_bytes, 8, 12)))
  ELSE Ok([value |-> TextValue(<<>>), total_length |-> 12])

\* bytes.hex(): two lowercase hexadecimal digits per byte
RECURSIVE bytes_hex(_)
bytes_hex(b) ==
  IF b = <<>> THEN <<>>
  ELSE <<LowerHexDigit[(b[1] \div 16) + 1], LowerHexDigit[(b[1] % 16) + 1]>>
       \o bytes_hex(Tail(b))

\* _parse_byte_string_parameter after struct.unpack('>L', param_bytes[8:12]) ended as u
ByteStringFromUnpacked(param_bytes, u) ==
  IF u.exc # "" THEN Raise(u.exc)
  \* len(param_bytes) >= 12 + data_length
  ELSE IF LongAtMost(u.val[1], Len(param_bytes) - 12)
  THEN Ok([value |-> TokValue(bytes_hex(Slice(param_bytes, 12, 12 + Small(u.val[1])))),
           total_length |-> 12 + Small(u.val[1])])
  ELSE Ok([value |-> TokValue(<<>>), total_length |-> 12])

\* PCFParser._parse_byte_string_parameter(param_bytes)
_parse_byte_string_parameter(param_bytes) ==
  IF Len(param_bytes) >= 12
  THEN ByteStringFromUnpacked(param_bytes, struct_unpack(1, Slice(param_bytes, 8, 12)))
  ELSE Ok([value |-> TokValue(<<>>), total_length |-> 12])

\* the loop of _parse_integer_list_parameter: the values i .. count - 1
RECURSIVE IntegerListValues(_, _, _)
RECURSIVE IntegerListNext(_, _, _, _)
IntegerListValues(param_bytes, i, count) ==
  IF i >= count THEN Ok(<<>>)
  ELSE IntegerListNext(param_bytes, i, count,
                       struct_unpack(1, Slice(param_bytes, 12 + (i * 4), 12 + (i * 4) + 4)))

PrependTo(x, rest) == IF rest.exc # "" THEN rest ELSE Ok(<<x>> \o rest.val)

IntegerListNext(param_bytes, i, count, u) ==
  IF u.exc # "" THEN Raise(u.exc)
  ELSE PrependTo(u.val[1], IntegerListValues(param_bytes, i + 1, count))

IntegerListFromValues(values, count) ==
  IF values.exc # "" THEN Raise(values.exc)
  ELSE Ok([value |-> ListValue(values.val), total_length |-> 12 + (count * 4)])

\* _parse_integer_list_parameter after struct.unpack('>L', param_bytes[8:12]) ended as u
IntegerListFromUnpacked(param_bytes, u) ==
  IF u.exc # "" THEN Raise(u.exc)
  \* len(param_bytes) >= 12 + count * 4
  ELSE IF LongAtMost(u.val[1], (Len(param_bytes) - 12) \div 4)
  THEN IntegerListFromValues(IntegerListValues(param_bytes, 0, Small(u.val[1])),
                             Small(u.val[1]))
  ELSE Ok([value |-> ListValue(<<>>), total_length |-> 12])

\* PCFParser._parse_integer_list_parameter(param_bytes)
_parse_integer_list_parameter(param_bytes) ==
  IF Len(param_bytes) >= 12
  THEN IntegerListFromUnpacked(param_bytes, struct_unpack(1, Slice(param_bytes, 8, 12)))
  ELSE Ok([value |-> ListValue(<<>>), total_length |-> 12])

\* the type dispatch of _parse_single_parameter
ParameterValue(param_type, param_bytes) ==
  IF param_type = Long(MQCFT_INTEGER) THEN _parse_integer_parameter(param_bytes)
  ELSE IF param_type = Long(MQCFT_STRING) THEN _parse_string_parameter(param_bytes)
  ELSE IF param_type = Long(MQCFT_BYTE_STRING) THEN _parse_byte_string_parameter(param_bytes)
  ELSE IF param_type = Long(MQCFT_INTEGER_LIST) THEN _parse_integer_list_parameter(param_bytes)
  ELSE Ok([value |-> TokValue(<<"unsupported_type_">> \o FormatDecimal(param_type)),
           total_length |-> PCF_PARAMETER_HEADER_SIZE])

\* the parameter dict, r being the end of the type-specific decoder:
\* struct.error is caught and None returned, any other exception leaves the call
ParameterDict(param_id, param_type, r) ==
  IF r.exc = "struct.error" THEN Ok(None)
  ELSE IF r.exc # "" THEN Raise(r.exc)
  ELSE Ok([parameter_id   |-> param_id,
           parameter_type |-> param_type,
           parameter_name |-> get_parameter_name(param_id),
           value          |-> r.val.value,
           total_length   |-> r.val.total_length])

\* _parse_single_parameter after struct.unpack('>LL', param_bytes[:8]) ended as u
ParameterFromUnpacked(param_bytes, u) ==
  IF u.exc = "struct.error" THEN Ok(None)
  ELSE ParameterDict(u.val[1], u.val[2], ParameterValue(u.val[2], param_bytes))

\* PCFParser._parse_single_parameter(param_bytes): the parameter dict, or None
_parse_single_parameter(param_bytes) ==
  IF Len(param_bytes) < PCF_PARAMETER_HEADER_SIZE THEN Ok(None)
  ELSE ParameterFromUnpacked(param_bytes, struct_unpack(2, Slice(param_bytes, 0, 8)))

\* a loop that steps over the id of a record only
LoopAfterDecodeById(st, param) ==
  IF param.exc # ""
  THEN [st EXCEPT !.stopped = TRUE, !.exc = param.exc, !.decodes = @ + 1]
  ELSE IF param.val # None
  THEN [st EXCEPT !.parameters = Append(@, param.val),
                  !.offset = @ + 4,
                  !.decodes = @ + 1]
  ELSE [st EXCEPT !.stopped = TRUE, !.decodes = @ + 1]

\* the loop of _parse_pcf_parameters after _parse_single_parameter ended as
\* param: the parameter is appended and the offset advanced by its
\* total_length, or the loop is left
LoopAfterDecode(st, param) ==
  IF param.exc # ""
  THEN [st EXCEPT !.stopped = TRUE, !.exc = param.exc, !.decodes = @ + 1]
  ELSE IF param.val # None
  THEN [st EXCEPT !.parameters = Append(@, param.val),
                  !.offset = @ + param.val.total_length,
                  !.decodes = @ + 1]
  ELSE [st EXCEPT !.stopped = TRUE, !.decodes = @ + 1]

\* one pass through the body of the for loop of _parse_pcf_parameters; decodes
\* counts the calls of _parse_single_parameter, offsets lists the offset each
\* pass started at
LoopBody(param_bytes, st) ==
  IF st.offset + PCF_PARAMETER_HEADER_SIZE > Len(param_bytes)
  THEN [st EXCEPT !.stopped = TRUE, !.offsets = Append(@, st.offset)]
  ELSE LoopAfterDecode([st EXCEPT !.offsets = Append(@, st.offset)],
                       _parse_single_parameter(
                         Slice(param_bytes, st.offset, Len(param_bytes))))

\* n passes of the loop from state st, or fewer when a pass breaks out of it
\* (the passes are split in halves to keep the evaluation shallow)
RECURSIVE RunLoop(_, _, _)
RunLoop(param_bytes, n, st) ==
  IF st.stopped \/ n = 0 THEN st
  ELSE IF n = 1 THEN LoopBody(param_bytes, st)
  ELSE The({RunLoop(param_bytes, n - (n \div 2), half) :
              half \in {RunLoop(param_bytes, n \div 2, st)}})

\* n passes, taken in blocks of size, 16 * size, 256 * size, ... passes: a
\* loop that is left early is left in one of the first blocks
RECURSIVE RunLoopFrom(_, _, _, _)
RunLoopFrom(param_bytes, n, size, st) ==
  IF st.stopped \/ n = 0 THEN st
  ELSE IF n <= size THEN RunLoop(param_bytes, n, st)
  ELSE The({RunLoopFrom(param_bytes, n - size, 16 * size, block) :
              block \in {RunLoop(param_bytes, size, st)}})

\* 65536 * k passes
RECURSIVE RunLoopHi(_, _, _)
RunLoopHi(param_bytes, k, st) ==
  IF st.stopped \/ k = 0 THEN st
  ELSE The({RunLoopHi(param_bytes, k - 1, block) :
              block \in {RunLoopFrom(param_bytes, 65536, 1, st)}})

\* a loop that runs while records remain, whatever count was declared
ForRangeToBufferEnd(param_bytes, param_count, st) ==
  RunLoop(param_bytes, Len(param_bytes), st)

\* for _ in range(param_count): ...   (the range of a count <= 0 is empty)
ForRange(param_bytes, param_count, st) ==
  IF param_count.hi < 0 THEN st
  ELSE The({RunLoopFrom(param_bytes, param_count.lo, 1, blocks) :
              blocks \in {RunLoopHi(param_bytes, param_count.hi, st)}})

\* the loop of _parse_pcf_parameters, from parameters = [] and offset = 0 to
\* the state it ends in
ParametersLoop(param_bytes, param_count) ==
  ForRange(param_bytes, param_count,
           [parameters |-> <<>>, offset |-> 0, stopped |-> FALSE, exc |-> "", decodes |-> 0,
            offsets |-> <<>>])

LoopResult(st) == IF st.exc # "" THEN Raise(st.exc) ELSE Ok(st.parameters)

\* PCFParser._parse_pcf_parameters(param_bytes, param_count)
_parse_pcf_parameters(param_bytes, param_count) ==
  LoopResult(ParametersLoop(param_bytes, param_count))

---------------------------------------------------------------------------
(* PCFParser.parse_message *)

\* the exceptions parse_message catches: struct.error, ValueError and its
\* subclass UnicodeDecodeError, IndexError
CaughtByParseMessage == {"struct.error", "ValueError", "UnicodeDecodeError", "IndexError"}

\* the end of parse_message, parameters being the end of _parse_pcf_parameters
MessageFromParameters(message, header, parameters) ==
  IF parameters.exc \in CaughtByParseMessage
  THEN [exc |-> "", val |-> None,
        calls |-> <<"_parse_pcf_header", "_parse_pcf_parameters">>]
  ELSE IF parameters.exc # ""
  THEN [exc |-> parameters.exc, val |-> None,
        calls |-> <<"_parse_pcf_header", "_parse_pcf_parameters">>]
  ELSE [exc |-> "",
        val |-> [header |-> header,
                 parameters |-> parameters.val,
                 message_size |-> Len(message)],
        calls |-> <<"_parse_pcf_header", "_parse_pcf_parameters">>]

\* parse_message once _parse_pcf_header returned header
MessageFromHeader(message, header) ==
  IF header.val = None
  THEN [exc |-> "", val |-> None, calls |-> <<"_parse_pcf_header">>]
  ELSE MessageFromParameters(
         message, header.val,
         _parse_pcf_parameters(Slice(message, PCF_HEADER_SIZE, Len(message)),
                               header.val.parameter_count))

\* parse_message without its check of the buffer's length
parse_message_unguarded(message) ==
  MessageFromHeader(message, _parse_pcf_header(Slice(message, 0, PCF_HEADER_SIZE)))

\* PCFParser.parse_message(message): [exc, val, calls], calls being the
\* decoders it ran
parse_message(message) ==
  IF Len(message) < PCF_HEADER_SIZE
  THEN [exc |-> "", val |-> None, calls |-> <<>>]
  ELSE MessageFromHeader(message, _parse_pcf_header(Slice(message, 0, PCF_HEADER_SIZE)))

---------------------------------------------------------------------------
(* PCFParser: the extractors *)

\* a value that is None
NoneValue == [kind |-> "None", int |-> Long(0), text |-> <<>>, toks |-> <<>>, list |-> <<>>]

\* isinstance(value, str), isinstance(value, int)
IsStr(value) == value.kind = "str"

IsInt(value) == value.kind = "int"

\* the characters str.strip() removes
Whitespace ==
  {9, 10, 11, 12, 13, 28, 29, 30, 31, 32, 133, 160, 5760, 8232, 8233, 8239, 8287, 12288}
  \cup 8192..8202

\* s.strip() for a text s
strip(s) ==
  LET kept == {i \in 1..Len(s) : s[i] \notin Whitespace}
  IN  IF kept = {} THEN <<>>
      ELSE SubSeq(s, CHOOSE i \in kept : \A j \in kept : i <= j,
                     CHOOSE i \in kept : \A j \in kept : j <= i)

\* value.strip() for a str value (the tokens of a formatted str hold no whitespace)
StripValue(value) == [value EXCEPT !.text = strip(@)]

\* v > 0 for an int v
Positive(v) == v.hi > 0 \/ (v.hi = 0 /\ v.lo > 0)

\* -v for an int v
Negate(v) ==
  IF v.lo = 0 THEN [hi |-> 0 - v.hi, lo |-> 0]
  ELSE [hi |-> 0 - v.hi - 1, lo |-> 65536 - v.lo]

\* f'{v}' for an int v
FormatInt(v) == IF v.hi < 0 THEN <<"-">> \o FormatDecimal(Negate(v)) ELSE FormatDecimal(v)

\* not parsed_message or 'parameters' not in parsed_message, for a
\* parsed_message that is None or a dict given by its keys and its parameters
WithoutParameters(parsed_message) ==
  \/ parsed_message = None
  \/ parsed_message.keys = {}
  \/ "parameters" \notin parsed_message.keys

\* the dict extract_queue_operations starts from
operations ==
  [queue_name        |-> TokValue(<<"unknown">>),
   get_count         |-> Long(0),
   put_count         |-> Long(0),
   browse_count      |-> Long(0),
   open_input_count  |-> Long(0),
   open_output_count |-> Long(0),
   enqueue_count     |-> Long(0),
   dequeue_count     |-> Long(0),
   current_depth     |-> Long(0),
   max_depth         |-> Long(0),
   put_bytes         |-> Long(0),
   get_bytes         |-> Long(0),
   put_time          |-> Long(0),
   get_time          |-> Long(0)]

\* the if / elif chain of extract_queue_operations for a value that is not None
QueueOperationsAssign(ops, param_name, value) ==
  IF param_name = <<"MQCA_Q_NAME">> /\ IsStr(value)
  THEN [ops EXCEPT !.queue_name = StripValue(value)]
  ELSE IF param_name = <<"MQIA_GET_COUNT">> /\ IsInt(value)
  THEN [ops EXCEPT !.get_count = value.int]
  ELSE IF param_name = <<"MQIA_PUT_COUNT">> /\ IsInt(value)
  THEN [ops EXCEPT !.put_count = value.int]
  ELSE IF param_name = <<"MQIA_BROWSE_COUNT">> /\ IsInt(value)
  THEN [ops EXCEPT !.browse_count = value.int]
  ELSE IF param_name = <<"MQIA_OPEN_INPUT_COUNT">> /\ IsInt(value)
  THEN [ops EXCEPT !.open_input_count = value.int]
  ELSE IF param_name = <<"MQIA_OPEN_OUTPUT_COUNT">> /\ IsInt(value)
  THEN [ops EXCEPT !.open_output_count = value.int]
  ELSE IF param_name = <<"MQIA_MSG_ENQ_COUNT">> /\ IsInt(value)
  THEN [ops EXCEPT !.enqueue_count = value.int]
  ELSE IF param_name = <<"MQIA_MSG_DEQ_COUNT">> /\ IsInt(value)
  THEN [ops EXCEPT !.dequeue_count = value.int]
  ELSE IF param_name = <<"MQIA_CURRENT_Q_DEPTH">> /\ IsInt(value)
  THEN [ops EXCEPT !.current_depth = value.int]
  ELSE IF param_name = <<"MQIA_MAX_Q_DEPTH">> /\ IsInt(value)
  THEN [ops EXCEPT !.max_depth = value.int]
  ELSE IF param_name = <<"MQIA_PUT_BYTES">> /\ IsInt(value)
  THEN [ops EXCEPT !.put_bytes = value.int]
  ELSE IF param_name = <<"MQIA_GET_BYTES">> /\ IsInt(value)
  THEN [ops EXCEPT !.get_bytes = value.int]
  ELSE IF param_name = <<"MQIA_PUT_TIME">> /\ IsInt(value)
  THEN [ops EXCEPT !.put_time = value.int]
  ELSE IF param_name = <<"MQIA_GET_TIME">> /\ IsInt(value)
  THEN [ops EXCEPT !.get_time = value.int]
  ELSE ops

\* one pass of the loop of extract_queue_operations: a value that is None is
\* skipped
QueueOperationsPass(ops, param) ==
  IF param.value = NoneValue THEN ops
  ELSE QueueOperationsAssign(ops, param.parameter_name, param.value)

\* a variant of the loop in which the first parameter of a name is the one
\* that stays
RECURSIVE QueueOperationsLoopFirstWins(_, _)
QueueOperationsLoopFirstWins(parameters, ops) ==
  IF parameters = <<>> THEN ops
  ELSE QueueOperationsPass(QueueOperationsLoopFirstWins(Tail(parameters), ops),
                           Head(parameters))

\* for param in parsed_message['parameters']: ...
RECURSIVE QueueOperationsLoop(_, _)
QueueOperationsLoop(parameters, ops) ==
  IF parameters = <<>> THEN ops
  ELSE QueueOperationsLoop(Tail(parameters), QueueOperationsPass(ops, Head(parameters)))

\* a variant that takes a queue for read only when messages were got or browsed
WithReadersWritersByMessages(ops) ==
  [has_readers |-> (Positive(ops.get_count) \/ Positive(ops.browse_count)),
   has_writers |-> (Positive(ops.put_count) \/ Positive(ops.open_output_count))]
  @@ ops

\* the end of extract_queue_operations: has_readers and has_writers are
\* derived from the counters
WithReadersWriters(ops) ==
  [has_readers |-> (Positive(ops.get_count) \/ Positive(ops.browse_count)
                    \/ Positive(ops.open_input_count)),
   has_writers |-> (Positive(ops.put_count) \/ Positive(ops.open_output_count))]
  @@ ops

\* extract_queue_operations from the dict ops on
QueueOperationsFrom(ops, parsed_message) ==
  IF WithoutParameters(parsed_message) THEN ops
  ELSE WithReadersWriters(QueueOperationsLoop(parsed_message.parameters, ops))

\* a variant that keeps its operations dict on the instance: a call starts
\* from the dict the call before it ended with
extract_queue_operations_shared(self, parsed_message) ==
  LET ops == IF "operations" \in DOMAIN self
             THEN [f \in DOMAIN operations |-> self.operations[f]] ELSE operations
  IN  The({[self |-> [logger |-> self.logger, operations |-> r], val |-> r] :
             r \in {QueueOperationsFrom(ops, parsed_message)}})

\* PCFParser.extract_queue_operations(parsed_message): the dict returned,
\* and the instance, which the call leaves as it was
extract_queue_operations(self, parsed_message) ==
  [self |-> self, val |-> QueueOperationsFrom(operations, parsed_message)]

\* the dict of _get_channel_type_name
channel_types ==
  << <<1, "SENDER">>, <<2, "SERVER">>, <<3, "RECEIVER">>, <<4, "REQUESTER">>,
     <<5, "CLIENT_CONNECTION">>, <<6, "SERVER_CONNECTION">>,
     <<7, "CLUSTER_RECEIVER">>, <<8, "CLUSTER_SENDER">> >>

\* PCFParser._get_channel_type_name(channel_type)
_get_channel_type_name(channel_type) ==
  DictGet(channel_types, KeyOf(channel_type),
          <<"UNKNOWN_CHANNEL_TYPE_">> \o FormatInt(channel_type))

\* the dict of _get_transport_type_name
transport_types ==
  << <<1, "LU62">>, <<2, "TCP">>, <<3, "NETBIOS">>, <<4, "SPX">>,
     <<5, "DECnet">>, <<6, "UDP">> >>

\* PCFParser._get_transport_type_name(transport_type)
_get_transport_type_name(transport_type) ==
  DictGet(transport_types, KeyOf(transport_type),
          <<"UNKNOWN_TRANSPORT_">> \o FormatInt(transport_type))

\* the dict of _get_channel_status_name
statuses ==
  << <<0, "INACTIVE">>, <<1, "BINDING">>, <<2, "STARTING">>, <<3, "RUNNING">>,
     <<4, "STOPPING">>, <<5, "RETRYING">>, <<6, "STOPPED">>, <<7, "REQUESTING">>,
     <<8, "PAUSED">>, <<13, "INITIALIZING">> >>

\* PCFParser._get_channel_status_name(status)
_get_channel_status_name(status) ==
  DictGet(statuses, KeyOf(status), <<"UNKNOWN_STATUS_">> \o FormatInt(status))

\* the dict extract_connection_info starts from
connection_info ==
  [channel_name     |-> TokValue(<<"unknown">>),
   connection_name  |-> TokValue(<<"unknown">>),
   application_name |-> TokValue(<<"unknown">>),
   user_id          |-> TokValue(<<"unknown">>),
   connect_count    |-> Long(0),
   disconnect_count |-> Long(0),
   channel_type     |-> TokValue(<<"unknown">>),
   transport_type   |-> TokValue(<<"unknown">>),
   channel_status   |-> TokValue(<<"unknown">>)]

\* the if / elif chain of extract_connection_info for a value that is not None
ConnectionInfoAssign(info, param_name, value) ==
  IF param_name = <<"MQCACH_CHANNEL_NAME">> /\ IsStr(value)
  THEN [info EXCEPT !.channel_name = StripValue(value)]
  ELSE IF param_name = <<"MQCACH_CONNECTION_NAME">> /\ IsStr(value)
  THEN [info EXCEPT !.connection_name = StripValue(value)]
  ELSE IF param_name = <<"MQCA_APPL_NAME">> /\ IsStr(value)
  THEN [info EXCEPT !.application_name = StripValue(value)]
  ELSE IF param_name = <<"MQCACH_USER_ID">> /\ IsStr(value)
  THEN [info EXCEPT !.user_id = StripValue(value)]
  ELSE IF param_name = <<"MQIA_CONNECT_COUNT">> /\ IsInt(value)
  THEN [info EXCEPT !.connect_count = value.int]
  ELSE IF param_name = <<"MQIA_DISC_COUNT">> /\ IsInt(value)
  THEN [info EXCEPT !.disconnect_count = value.int]
  ELSE IF param_name = <<"MQIACH_CHANNEL_TYPE">> /\ IsInt(value)
  THEN [info EXCEPT !.channel_type = TokValue(_get_channel_type_name(value.int))]
  ELSE IF param_name = <<"MQIACH_TRANSPORT_TYPE">> /\ IsInt(value)
  THEN [info EXCEPT !.transport_type = TokValue(_get_transport_type_name(value.int))]
  ELSE IF param_name = <<"MQIACH_CHANNEL_STATUS">> /\ IsInt(value)
  THEN [info EXCEPT !.channel_status = TokValue(_get_channel_status_name(value.int))]
  ELSE info

\* one pass of the loop of extract_connection_info
ConnectionInfoPass(info, param) ==
  IF param.value = NoneValue THEN info
  ELSE ConnectionInfoAssign(info, param.parameter_name, param.value)

\* for param in parsed_message['parameters']: ...
RECURSIVE ConnectionInfoLoop(_, _)
ConnectionInfoLoop(parameters, info) ==
  IF parameters = <<>> THEN info
  ELSE ConnectionInfoLoop(Tail(parameters), ConnectionInfoPass(info, Head(parameters)))

\* PCFParser.extract_connection_info(parsed_message)
extract_connection_info(parsed_message) ==
  IF WithoutParameters(parsed_message) THEN connection_info
  ELSE ConnectionInfoLoop(parsed_message.parameters, connection_info)

---------------------------------------------------------------------------
(* The encoders of the tests, which build the buffers the parser is run on *)

\* int.to_bytes(4, 'big') for 0 <= v < 2^32, and
\* int.to_bytes(4, 'big', signed=True) for -2^31 <= v < 2^31 (two's complement)
to_bytes4(v) ==
  LET h == v.hi % 65536
  IN  <<h \div 256, h % 256, v.lo \div 256, v.lo % 256>>

\* one code point of str.encode('utf-8')
EncodeCodePoint(c) ==
  IF c < 128 THEN <<c>>
  ELSE IF c < 2048 THEN <<192 + (c \div 64), 128 + (c % 64)>>
  ELSE IF c < 65536 THEN <<224 + (c \div 4096), 128 + ((c \div 64) % 64), 128 + (c % 64)>>
  ELSE <<240 + (c \div 262144), 128 + ((c \div 4096) % 64),
         128 + ((c \div 64) % 64), 128 + (c % 64)>>

\* str.encode('utf-8')
RECURSIVE encode_utf8(_)
encode_utf8(t) ==
  IF t = <<>> THEN <<>> ELSE EncodeCodePoint(t[1]) \o encode_utf8(Tail(t))

Zeros(n) == [i \in 1..n |-> 0]

\* tests/test_comprehensive.py _create_pcf_header(msg_type, command, param_count)
_create_pcf_header(msg_type, command, param_count) ==
  to_bytes4(msg_type) \o to_bytes4(Long(36)) \o to_bytes4(Long(1)) \o to_bytes4(command)
  \o to_bytes4(Long(1)) \o to_bytes4(Long(0)) \o to_bytes4(Long(0)) \o to_bytes4(Long(0))
  \o to_bytes4(param_count)

\* tests/test_comprehensive.py _create_string_parameter(param_id, value):
\* the declared length is the unpadded length, the record is zero-padded to
\* a 4-byte boundary
_create_string_parameter(param_id, value) ==
  LET value_bytes == encode_utf8(value)
      len == 12 + Len(value_bytes)
      param_len == IF len % 4 # 0 THEN len + (4 - (len % 4)) ELSE len
  IN  to_bytes4(param_id) \o to_bytes4(Long(MQCFT_STRING)) \o to_bytes4(Long(Len(value_bytes)))
      \o value_bytes \o Zeros(param_len - len)

\* tests/test_comprehensive.py _create_integer_parameter(param_id, value)
_create_integer_parameter(param_id, value) ==
  to_bytes4(param_id) \o to_bytes4(Long(MQCFT_INTEGER)) \o to_bytes4(value)

\* tests/test_pcf_parser.py test_parse_integer_parameter: the record, its
\* value written by to_bytes(4, 'big')
IntegerRecordUnsigned(param_id, value) ==
  to_bytes4(param_id) \o to_bytes4(Long(MQCFT_INTEGER)) \o to_bytes4(value)

\* tests/test_pcf_parser.py test_parse_string_parameter: the record without padding
StringRecordUnpadded(param_id, value_bytes) ==
  to_bytes4(param_id) \o to_bytes4(Long(MQCFT_STRING)) \o to_bytes4(Long(Len(value_bytes)))
  \o value_bytes

---------------------------------------------------------------------------
(* EnhancedPCFExtractor: application names and client addresses from raw
   buffers.  A str is the sequence of its code points, bytes the sequence of
   its byte values. *)

\* 'unknown'
unknown == <<117, 110, 107, 110, 111, 119, 110>>

\* the classes of the bytes patterns: [a-zA-Z0-9_\-\.] and \d
NameBytes == (48..57) \cup (65..90) \cup (97..122) \cup {95, 45, 46}

DigitBytes == 48..57

\* the same classes in the str patterns of _brute_force_extraction, which are
\* compiled with re.IGNORECASE: the class of names also takes the four
\* letters that fold to an ASCII letter, and \d takes every decimal digit
\* (listed here: those below U+0800)
NameChars == NameBytes \cup {304, 305, 383, 8490}

DigitChars == (48..57) \cup (1632..1641) \cup (1776..1785) \cup (1984..1993)

\* the characters a letter of a str pattern matches under re.IGNORECASE
Folds(c) ==
  IF c \in 97..122
  THEN {c, c - 32} \cup (IF c = 105 THEN {304, 305} ELSE IF c = 115 THEN {383}
                         ELSE IF c = 107 THEN {8490} ELSE {})
  ELSE {c}

\* the last position of the run of members of class that starts at s[i]
\* (i - 1: s[i] is no member)
RECURSIVE RunEnd(_, _, _)
RunEnd(s, i, class) ==
  IF i <= Len(s) /\ s[i] \in class THEN RunEnd(s, i + 1, class) ELSE i - 1

\* the positions where a maximal run of members of class starts
RunStarts(s, class) ==
  {i \in 1..Len(s) : s[i] \in class /\ (i = 1 \/ s[i - 1] \notin class)}

\* the least number of a non-empty set of numbers
Least(S) == CHOOSE i \in S : \A j \in S : i <= j

\* the greatest number of a non-empty set of numbers
Greatest(S) == CHOOSE i \in S : \A j \in S : j <= i

\* the result of re.search: no match, or the match with its groups
NoMatch == [found |-> FALSE, groups |-> <<>>]

Match(groups) == [found |-> TRUE, groups |-> groups]

\* the literal text occurs in s at position i
OccursAt(s, i, text) == i >= 1 /\ i + Len(text) - 1 <= Len(s) /\ SubSeq(s, i, i + Len(text) - 1) = text

\* re.search(rb'([a-zA-Z0-9_\-\.]+<suffix>)\x00', data), the run of name
\* bytes that starts at start ending at end: the run matches as a whole when
\* it is longer than the suffix, ends with it and is followed by NUL
FileNameRunMatches(data, start, end, suffix) ==
  /\ end - start + 1 > Len(suffix)
  /\ OccursAt(data, end - Len(suffix) + 1, suffix)
  /\ end < Len(data)
  /\ data[end + 1] = 0

FileNameFrom(data, starts) ==
  IF starts = {} THEN NoMatch
  ELSE Match(<<SubSeq(data, Least(starts), RunEnd(data, Least(starts), NameBytes))>>)

search_file_name(data, suffix) ==
  FileNameFrom(data, {s \in RunStarts(data, NameBytes) :
                        FileNameRunMatches(data, s, RunEnd(data, s, NameBytes), suffix)})

\* re.search of a pattern without a group: the literal text
search_literal(data, text) ==
  IF \E i \in 1..Len(data) : OccursAt(data, i, text) THEN Match(<<>>) ELSE NoMatch

\* self.app_name_patterns
app_name_patterns ==
  << [suffix |-> <<46, 101, 120, 101>>, literal |-> <<>>],      \* rb'([a-zA-Z0-9_\-\.]+\.exe)\x00'
     [suffix |-> <<46, 106, 97, 114>>, literal |-> <<>>],      \* rb'([a-zA-Z0-9_\-\.]+\.jar)\x00'
     [suffix |-> <<46, 112, 121>>, literal |-> <<>>],           \* rb'([a-zA-Z0-9_\-\.]+\.py)\x00'
     [suffix |-> <<>>, literal |-> <<97, 109, 113, 115, 112, 117, 116, 0>>],   \* rb'amqsput\x00'
     [suffix |-> <<>>, literal |-> <<97, 109, 113, 115, 103, 101, 116, 0>>],   \* rb'amqsget\x00'
     [suffix |-> <<>>,                                \* rb'generate_mq_activity\.py\x00'
      literal |-> <<103, 101, 110, 101, 114, 97, 116, 101, 95, 109, 113, 95, 97, 99, 116, 105, 118, 105, 116, 121, 46, 112, 121, 0>>],
     [suffix |-> <<>>,                                \* rb'reader_writer_demo\.py\x00'
      literal |-> <<114, 101, 97, 100, 101, 114, 95, 119, 114, 105, 116, 101, 114, 95, 100, 101, 109, 111, 46, 112, 121, 0>>] >>

\* re.search(pattern, data) for a pattern of app_name_patterns
re_search(pattern, data) ==
  IF pattern.suffix # <<>> THEN search_file_name(data, pattern.suffix)
  ELSE search_literal(data, pattern.literal)

\* match.group(1): IndexError ('no such group') for a pattern without a group
group1(match) == IF Len(match.groups) < 1 THEN Raise("IndexError") ELSE Ok(match.groups[1])

\* b.decode('utf-8', errors='ignore'): the bytes that are part of no
\* well-formed sequence are left out
decode_utf8_ignore(b) == DecodeUtf8Starts(b, Utf8Starts(b))

\* the position after the octet \d{1,3} that starts at s[i] and the dot
\* that follows it (0: no octet and dot there): the digits run up to the dot
AfterOctet(s, i, digits) ==
  IF i = 0 THEN 0
  ELSE The({IF e >= i /\ e - i + 1 <= 3 /\ e < Len(s) /\ s[e + 1] = 46 THEN e + 2 ELSE 0 :
              e \in {RunEnd(s, i, digits)}})

\* the position of the fourth octet of \d{1,3}\.\d{1,3}\.\d{1,3}\.\d{1,3}
\* matched from s[i] on (0: no match)
FourthOctet(s, i, digits) == AfterOctet(s, AfterOctet(s, AfterOctet(s, i, digits), digits), digits)

\* ip_pattern matched at s[i]: the end of the match (0: no match); the last
\* octet takes up to three digits
IpEndAt(s, i, digits) ==
  The({IF o = 0 THEN 0
       ELSE The({IF e < o THEN 0 ELSE Min(e, o + 2) : e \in {RunEnd(s, o, digits)}}) :
         o \in {FourthOctet(s, i, digits)}})

IpFrom(s, starts, digits) ==
  IF starts = {} THEN NoMatch
  ELSE Match(<<SubSeq(s, Least(starts), IpEndAt(s, Least(starts), digits))>>)

\* (\d{1,3}\.\d{1,3}\.\d{1,3}\.\d{1,3}) searched in s
search_ip(s, digits) == IpFrom(s, {i \in 1..Len(s) : IpEndAt(s, i, digits) # 0}, digits)

\* self.ip_pattern.search(data)
ip_pattern_search(data) == search_ip(data, DigitBytes)

\* conn_pattern matched at data[i]: the end of the address (0: no match);
\* the last octet is followed by ( or : and by the digits of the port
ConnIpEndAt(data, i) ==
  The({IF o = 0 THEN 0
       ELSE The({IF /\ e >= o /\ e - o + 1 <= 3
                    /\ e + 2 <= Len(data)
                    /\ data[e + 1] \in {40, 58}
                    /\ data[e + 2] \in DigitBytes
                 THEN e ELSE 0 : e \in {RunEnd(data, o, DigitBytes)}}) :
         o \in {FourthOctet(data, i, DigitBytes)}})

ConnGroups(data, i, e) ==
  Match(<<SubSeq(data, i, e), SubSeq(data, e + 2, RunEnd(data, e + 2, DigitBytes))>>)

ConnFrom(data, starts) ==
  IF starts = {} THEN NoMatch
  ELSE ConnGroups(data, Least(starts), ConnIpEndAt(data, Least(starts)))

\* self.conn_pattern.search(data), the pattern being
\* rb'(\d{1,3}\.\d{1,3}\.\d{1,3}\.\d{1,3})[\(\:](\d+)[\)\x00]?'
conn_pattern_search(data) ==
  ConnFrom(data, {i \in 1..Len(data) : ConnIpEndAt(data, i) # 0})

\* the info dict of _extract_by_patterns before the searches
pattern_info ==
  [application_name |-> unknown, client_ip |-> unknown,
   extraction_method |-> "pattern_matching", raw_data_found |-> FALSE]

\* for pattern in self.app_name_patterns: ... from the k-th pattern on; the
\* loop ends at the first match that gives a name, and match.group(1) raises
\* for a pattern without a group
RECURSIVE AppNameLoop(_, _, _)
AppNameAfterDecode(data, k, info, app_name) ==
  IF app_name # <<>>
  THEN Ok([info EXCEPT !.application_name = strip(app_name), !.raw_data_found = TRUE])
  ELSE AppNameLoop(data, k + 1, info)

AppNameAfterGroup(data, k, info, group) ==
  IF group.exc # "" THEN group
  ELSE AppNameAfterDecode(data, k, info, decode_utf8_ignore(group.val))

AppNameAfterSearch(data, k, info, match) ==
  IF match.found THEN AppNameAfterGroup(data, k, info, group1(match))
  ELSE AppNameLoop(data, k + 1, info)

AppNameLoop(data, k, info) ==
  IF k > Len(app_name_patterns) THEN Ok(info)
  ELSE AppNameAfterSearch(data, k, info, re_search(app_name_patterns[k], data))

\* _extract_by_patterns once ip_pattern was searched: ip_match.group(1).decode()
\* is the address, which is ASCII
AddressAfterIpSearch(info, ip_match) ==
  IF ip_match.found
  THEN [info EXCEPT !.client_ip = ip_match.groups[1], !.raw_data_found = TRUE]
  ELSE info

\* _extract_by_patterns once conn_pattern was searched
AddressAfterConnSearch(data, info, conn_match) ==
  IF conn_match.found
  THEN [connection_name |-> conn_match.groups[1] \o <<40>> \o conn_match.groups[2] \o <<41>>]
       @@ [info EXCEPT !.client_ip = conn_match.groups[1], !.raw_data_found = TRUE]
  ELSE AddressAfterIpSearch(info, ip_pattern_search(data))

PatternsAfterAppName(data, named) ==
  IF named.exc # "" THEN named
  ELSE Ok(AddressAfterConnSearch(data, named.val, conn_pattern_search(data)))

\* EnhancedPCFExtractor._extract_by_patterns(data): it has no try, so the
\* IndexError of match.group(1) leaves it
_extract_by_patterns(data) == PatternsAfterAppName(data, AppNameLoop(data, 1, pattern_info))

\* the info dict of _brute_force_extraction before the searches
brute_force_info ==
  [application_name |-> unknown, client_ip |-> unknown,
   extraction_method |-> "brute_force", raw_data_found |-> FALSE]

\* the literal text occurs in the str s at position i, letters in either case
OccursFoldedAt(s, i, text) ==
  /\ i >= 1
  /\ i + Len(text) - 1 <= Len(s)
  /\ \A j \in 1..Len(text) : s[i + j - 1] \in Folds(text[j])

\* re.search(r'([a-zA-Z0-9_\-\.]+<suffix>)', text, re.IGNORECASE): in the first
\* run of name characters that holds the suffix after at least one
\* character, from the start of the run to the end of the last such suffix
SuffixEnds(text, start, end, suffix) ==
  {i + Len(suffix) - 1 : i \in {j \in (start + 1)..(end - Len(suffix) + 1) :
                                 OccursFoldedAt(text, j, suffix)}}

FileNameTextFrom(text, starts, suffix) ==
  IF starts = {} THEN NoMatch
  ELSE Match(<<SubSeq(text, Least(starts),
                      Greatest(SuffixEnds(text, Least(starts),
                                          RunEnd(text, Least(starts), NameChars), suffix)))>>)

search_file_name_text(text, suffix) ==
  FileNameTextFrom(text,
                   {s \in RunStarts(text, NameChars) :
                      SuffixEnds(text, s, RunEnd(text, s, NameChars), suffix) # {}},
                   suffix)

LiteralTextFrom(text, starts, literal) ==
  IF starts = {} THEN NoMatch
  ELSE Match(<<SubSeq(text, Least(starts), Least(starts) + Len(literal) - 1)>>)

\* re.search(r'(<literal>)', text, re.IGNORECASE)
search_literal_text(text, literal) ==
  LiteralTextFrom(text, {i \in 1..Len(text) : OccursFoldedAt(text, i, literal)}, literal)

\* app_patterns of _brute_force_extraction
app_patterns ==
  << [suffix |-> <<46, 101, 120, 101>>, literal |-> <<>>],      \* r'([a-zA-Z0-9_\-\.]+\.exe)'
     [suffix |-> <<46, 106, 97, 114>>, literal |-> <<>>],      \* r'([a-zA-Z0-9_\-\.]+\.jar)'
     [suffix |-> <<46, 112, 121>>, literal |-> <<>>],           \* r'([a-zA-Z0-9_\-\.]+\.py)'
     [suffix |-> <<>>, literal |-> <<97, 109, 113, 115, 112, 117, 116>>],    \* r'(amqsput)'
     [suffix |-> <<>>, literal |-> <<97, 109, 113, 115, 103, 101, 116>>],    \* r'(amqsget)'
     [suffix |-> <<>>,                                \* r'(generate_mq_activity)'
      literal |-> <<103, 101, 110, 101, 114, 97, 116, 101, 95, 109, 113, 95, 97, 99, 116, 105, 118, 105, 116, 121>>],
     [suffix |-> <<>>,                                \* r'(reader_writer_demo)'
      literal |-> <<114, 101, 97, 100, 101, 114, 95, 119, 114, 105, 116, 101, 114, 95, 100, 101, 109, 111>>] >>

\* re.search(pattern, text_data, re.IGNORECASE) for a pattern of app_patterns
re_search_text(pattern, text) ==
  IF pattern.suffix # <<>> THEN search_file_name_text(text, pattern.suffix)
  ELSE search_literal_text(text, pattern.literal)

\* for pattern in app_patterns: ... from the k-th pattern on
RECURSIVE BruteForceLoop(_, _, _)
BruteForceAfterSearch(text, k, info, match) ==
  IF match.found
  THEN [info EXCEPT !.application_name = match.groups[1], !.raw_data_found = TRUE]
  ELSE BruteForceLoop(text, k + 1, info)

BruteForceLoop(text, k, info) ==
  IF k > Len(app_patterns) THEN info
  ELSE BruteForceAfterSearch(text, k, info, re_search_text(app_patterns[k], text))

BruteForceText(text) ==
  AddressAfterIpSearch(BruteForceLoop(text, 1, brute_force_info), search_ip(text, DigitChars))

\* EnhancedPCFExtractor._brute_force_extraction(data)
_brute_force_extraction(data) == BruteForceText(decode_utf8_ignore(data))

\* an Optional[str] that is a str
Str(text) == [py |-> "str", text |-> text]

\* EnhancedPCFExtractor._extract_string_parameter(param_data)
ExtractStringClean(clean_data) ==
  IF Len(clean_data) > 0 THEN Str(strip(decode_utf8_ignore(clean_data))) ELSE None

_extract_string_parameter(param_data) == ExtractStringClean(rstrip_nul(param_data))

\* the info dict of _parse_structured_pcf before its loop
structured_info ==
  [application_name |-> unknown, client_ip |-> unknown,
   extraction_method |-> "structured_pcf", raw_data_found |-> FALSE]

\* `if app_name and app_name != 'unknown'`
Usable(name) == name # None /\ name.text # <<>> /\ name.text # unknown

StructuredAppName(info, app_name) ==
  IF Usable(app_name)
  THEN [info EXCEPT !.application_name = app_name.text, !.raw_data_found = TRUE]
  ELSE info

StructuredAddress(info, conn_name, ip_match) ==
  IF ip_match.found
  THEN [connection_name |-> conn_name.text]
       @@ [info EXCEPT !.client_ip = ip_match.groups[1], !.raw_data_found = TRUE]
  ELSE info

StructuredConnName(info, conn_name) ==
  IF Usable(conn_name)
  THEN StructuredAddress(info, conn_name, ip_pattern_search(encode_utf8(conn_name.text)))
  ELSE info

\* the body of the loop of _parse_structured_pcf for a parameter whose two
\* leading words were read as param_type and param_length
StructuredParameter(info, param_type, param_data) ==
  IF param_type \in {2001, 3001}
  THEN StructuredAppName(info, _extract_string_parameter(param_data))
  ELSE IF param_type \in {2003, 3003, 1269}
  THEN StructuredConnName(info, _extract_string_parameter(param_data))
  ELSE info

\* while offset < len(data) - 8: ...   st holds the info dict and the offsets
\* at which the passes of the loop read a parameter header
RECURSIVE StructuredLoop(_, _, _)
StructuredAfterUnpack(data, offset, st, unpacked) ==
  IF unpacked.exc # "" THEN st
  ELSE IF \/ LongAtMost(unpacked.val[2], 7)
          \/ ~LongAtMost(unpacked.val[2], Len(data) - offset)
  THEN st
  ELSE StructuredLoop(
         data, offset + Small(unpacked.val[2]),
         [st EXCEPT !.info = StructuredParameter(
                                @, KeyOf(unpacked.val[1]),
                                Slice(data, offset + 8, offset + Small(unpacked.val[2]))),
                    !.offset = offset + Small(unpacked.val[2])])

StructuredLoop(data, offset, st) ==
  IF offset < Len(data) - 8
  THEN StructuredAfterUnpack(data, offset, [st EXCEPT !.offsets = Append(@, offset)],
                             struct_unpack(2, Slice(data, offset, offset + 8)))
  ELSE st

\* the loop of _parse_structured_pcf from offset = 36 to the state it ends in
StructuredWalk(data) ==
  StructuredLoop(data, PCF_HEADER_SIZE,
                 [info |-> structured_info, offsets |-> <<>>, offset |-> PCF_HEADER_SIZE])

\* EnhancedPCFExtractor._parse_structured_pcf(data)
_parse_structured_pcf(data) == StructuredWalk(data).info

\* the info dict extract_application_info starts from
application_info ==
  [application_name |-> unknown, application_tag |-> unknown, client_ip |-> unknown,
   connection_name |-> unknown, channel_name |-> unknown, user_id |-> unknown,
   extraction_method |-> "none", raw_data_found |-> FALSE]

\* extract_application_info from the final fallback on: info.update(...)
\* whatever the brute-force search found
AfterBruteForce(info, brute) ==
  [val |-> brute @@ info,
   calls |-> <<"_parse_structured_pcf", "_extract_by_patterns", "_brute_force_extraction">>]

\* extract_application_info once _extract_by_patterns ended: an exception
\* is caught by extract_application_info, which returns info as it is
AfterPatterns(message_data, info, patterns) ==
  IF patterns.exc # ""
  THEN [val |-> info, calls |-> <<"_parse_structured_pcf", "_extract_by_patterns">>]
  ELSE IF patterns.val.raw_data_found
  THEN [val |-> patterns.val @@ info,
        calls |-> <<"_parse_structured_pcf", "_extract_by_patterns">>]
  ELSE AfterBruteForce(info, _brute_force_extraction(message_data))

\* a variant in which the pattern search is run whatever the structured
\* parse found, and its result laid over it
AfterStructuredOverridden(message_data, info, structured) ==
  AfterPatterns(message_data,
                IF structured.raw_data_found THEN structured @@ info ELSE info,
                _extract_by_patterns(message_data))

\* extract_application_info once _parse_structured_pcf returned
AfterStructured(message_data, info, structured) ==
  IF structured.raw_data_found
  THEN [val |-> structured @@ info, calls |-> <<"_parse_structured_pcf">>]
  ELSE AfterPatterns(message_data, info, _extract_by_patterns(message_data))

\* EnhancedPCFExtractor.extract_application_info(message_data): the dict
\* returned and the tiers that were run, in call order
extract_application_info(message_data) ==
  AfterStructured(message_data, application_info, _parse_structured_pcf(message_data))

---------------------------------------------------------------------------
(* MQStatsReader: parsing the accounting messages and the summary *)

\* a + b for ints a, b >= 0
LongAdd(a, b) ==
  [hi |-> a.hi + b.hi + ((a.lo + b.lo) \div 65536), lo |-> (a.lo + b.lo) % 65536]

\* bytes.hex().upper(): two uppercase hexadecimal digits per byte
RECURSIVE hex_upper(_)
hex_upper(b) ==
  IF b = <<>> THEN <<>>
  ELSE <<HexDigit[(b[1] \div 16) + 1], HexDigit[(b[1] % 16) + 1]>> \o hex_upper(Tail(b))

\* `text in s` for strings
Contains(s, text) == \E i \in 1..Len(s) : OccursAt(s, i, text)

\* MQStatsReader._identify_readers_writers(message) once message_hex is
\* known: "GET", "PUT" and "BROWSE" are looked for in the hexadecimal digits
ReadersWritersFromHex(message_hex) ==
  [connection_info |->
     [has_readers      |-> Contains(message_hex, <<"4", "7", "4", "5", "5", "4">>),
      has_writers      |-> Contains(message_hex, <<"5", "0", "5", "5", "5", "4">>),
      connection_name  |-> TokValue(<<"unknown">>),
      application_name |-> TokValue(<<"unknown">>),
      channel_name     |-> TokValue(<<"unknown">>)],
   operations |->
     [get_count     |-> IF Contains(message_hex, <<"4", "7", "4", "5", "5", "4">>)
                        THEN Long(1) ELSE Long(0),
      put_count     |-> IF Contains(message_hex, <<"5", "0", "5", "5", "5", "4">>)
                        THEN Long(1) ELSE Long(0),
      browse_count  |-> IF Contains(message_hex,
                                    <<"4", "2", "5", "2", "4", "F", "5", "7", "5", "3", "4", "5">>)
                        THEN Long(1) ELSE Long(0),
      inquire_count |-> Long(0)]]

_identify_readers_writers(message) == ReadersWritersFromHex(hex_upper(message))

\* dict.get(key, default) on a dict modelled as a record
Get(dict, key, default) == IF key \in DOMAIN dict THEN dict[key] ELSE default

\* _parse_accounting_message from `if pcf_data:` on, in the branch taken when
\* the parser returned a message: queue_ops and conn_info are what the two
\* extractors returned (the timestamp and the fields copied from the
\* message descriptor are left out)
AccountingFromPcf(message, pcf_data, queue_ops, conn_info) ==
  [message_type    |-> "accounting",
   message_length  |-> Len(message),
   pcf_data        |-> pcf_data,
   queue_operations |-> queue_ops,
   connection_info |-> conn_info,
   connection_info_legacy |->
     [has_readers      |-> Get(queue_ops, "has_readers", FALSE),
      has_writers      |-> Get(queue_ops, "has_writers", FALSE),
      connection_name  |-> Get(conn_info, "connection_name", TokValue(<<"unknown">>)),
      application_name |-> Get(conn_info, "application_name", TokValue(<<"unknown">>)),
      channel_name     |-> Get(conn_info, "channel_name", TokValue(<<"unknown">>))],
   operations |->
     [get_count     |-> Get(queue_ops, "get_count", Long(0)),
      put_count     |-> Get(queue_ops, "put_count", Long(0)),
      browse_count  |-> Get(queue_ops, "browse_count", Long(0)),
      inquire_count |-> Long(0)]]

\* the branch taken when the parser returned None
AccountingFallback(message) ==
  _identify_readers_writers(message)
  @@ [message_type        |-> "accounting",
      message_length      |-> Len(message),
      pcf_header_parsed   |-> FALSE,
      raw_message_preview |-> bytes_hex(Slice(message, 0, Min(100, Len(message))))]

\* the dict parse_message returned, as the extractors are given it
PcfData(pcf_data) ==
  [keys |-> {"header", "parameters", "message_size"}, parameters |-> pcf_data.parameters]

\* _parse_accounting_message once self.pcf_parser.parse_message(message)
\* ended as parsed: ValueError, IndexError and KeyError are caught and None
\* is returned
AccountingFromParsed(self, message, parsed) ==
  IF parsed.exc \in {"ValueError", "UnicodeDecodeError", "IndexError", "KeyError"}
  THEN Ok(None)
  ELSE IF parsed.exc # "" THEN Raise(parsed.exc)
  ELSE IF parsed.val # None
  THEN Ok(AccountingFromPcf(
            message, parsed.val,
            extract_queue_operations(self.pcf_parser, PcfData(parsed.val)).val,
            extract_connection_info(PcfData(parsed.val))))
  ELSE Ok(AccountingFallback(message))

\* MQStatsReader._parse_accounting_message(message, md)
_parse_accounting_message(self, message) ==
  AccountingFromParsed(self, message, parse_message(message))

\* the loop of read_accounting_queue over the messages queue.get returns
\* until no message is available: the messages parsed to something are
\* appended
RECURSIVE read_accounting_queue(_, _)
AccountingAppend(parsed_data, rest) ==
  \* except (ValueError, TypeError): the list read so far is returned
  IF parsed_data.exc \in {"ValueError", "UnicodeDecodeError", "TypeError"} THEN Ok(<<>>)
  ELSE IF parsed_data.exc # "" THEN Raise(parsed_data.exc)
  ELSE IF rest.exc # "" THEN rest
  ELSE IF parsed_data.val = None THEN rest
  ELSE Ok(<<parsed_data.val>> \o rest.val)

read_accounting_queue(self, messages) ==
  IF messages = <<>> THEN Ok(<<>>)
  ELSE AccountingAppend(_parse_accounting_message(self, Head(messages)),
                        read_accounting_queue(self, Tail(messages)))

\* the summary _generate_summary starts from
summary ==
  [total_messages     |-> 0,
   readers_identified |-> 0,
   writers_identified |-> 0,
   queue_operations   |-> [total_gets |-> Long(0), total_puts |-> Long(0),
                           total_browses |-> Long(0)],
   active_connections |-> <<>>,
   statistics_types   |-> <<>>]

\* `if conn_info.get("has_readers"):`
Truthy(dict, key) == key \in DOMAIN dict /\ dict[key]

\* one pass of the loop over accounting_data, conn_info and operations being
\* acc_msg.get("connection_info", {}) and acc_msg.get("operations", {})
SummaryOfAccounting(s, conn_info, ops) ==
  [s EXCEPT
     !.readers_identified = IF Truthy(conn_info, "has_readers") THEN @ + 1 ELSE @,
     !.writers_identified = IF Truthy(conn_info, "has_writers") THEN @ + 1 ELSE @,
     !.queue_operations =
        [total_gets    |-> LongAdd(@.total_gets, Get(ops, "get_count", Long(0))),
         total_puts    |-> LongAdd(@.total_puts, Get(ops, "put_count", Long(0))),
         total_browses |-> LongAdd(@.total_browses, Get(ops, "browse_count", Long(0)))]]

\* for acc_msg in accounting_data: ...
RECURSIVE SummaryAccountingLoop(_, _)
SummaryAccountingLoop(s, accounting_data) ==
  IF accounting_data = <<>> THEN s
  ELSE SummaryAccountingLoop(
         SummaryOfAccounting(s, Get(Head(accounting_data), "connection_info", <<>>),
                             Get(Head(accounting_data), "operations", <<>>)),
         Tail(accounting_data))

\* statistics_types[stat_type] = statistics_types.get(stat_type, 0) + 1, the
\* dict being a sequence of <<key, count>> in insertion order
CountType(types, stat_type) ==
  IF \E i \in DOMAIN types : types[i][1] = stat_type
  THEN [i \in DOMAIN types |->
          IF types[i][1] = stat_type THEN <<stat_type, types[i][2] + 1>> ELSE types[i]]
  ELSE Append(types, <<stat_type, 1>>)

\* for stat_msg in statistics_data: ...
RECURSIVE SummaryStatisticsLoop(_, _)
SummaryStatisticsLoop(s, statistics_data) ==
  IF statistics_data = <<>> THEN s
  ELSE SummaryStatisticsLoop(
         [s EXCEPT !.statistics_types =
                      CountType(@, Get(Head(statistics_data), "statistics_type", "unknown"))],
         Tail(statistics_data))

\* MQStatsReader._generate_summary(statistics_data, accounting_data)
_generate_summary(statistics_data, accounting_data) ==
  SummaryStatisticsLoop(
    SummaryAccountingLoop(
      [summary EXCEPT !.total_messages = Len(statistics_data) + Len(accounting_data)],
      accounting_data),
    statistics_data)

---------------------------------------------------------------------------
(* The inputs *)

\* the most records a generated message body holds
MaxRecords == 2

\* the longest text of a string record decoded on its own
MaxTextLen == 3

IntRec(id, v) == [kind |-> "int", id |-> Long(id), int |-> v, text |-> <<>>, data |-> <<>>]

StrRec(id, t) == [kind |-> "str", id |-> Long(id), int |-> Long(0), text |-> t, data |-> <<>>]

RawRec(id, b) == [kind |-> "raw", id |-> Long(id), int |-> Long(0), text |-> <<>>, data |-> b]

\* 2^32 - 1, the largest unsigned 32-bit int
AllOnes == [hi |-> 65535, lo |-> 65535]

\* the int -1
MinusOne == [hi |-> -1, lo |-> 65535]

\* the records a message body is assembled from: records of the tests'
\* encoders, and malformed or unsupported ones written byte by byte
RecordShapes ==
  { IntRec(3004, Long(42)),
    StrRec(2016, <<84, 69, 83, 84, 46, 81, 85, 69, 85, 69>>),    \* "TEST.QUEUE"
    StrRec(2024, <<84, 101, 115, 116>>),                         \* "Test"
    \* a string whose body is not UTF-8
    RawRec(2001, to_bytes4(Long(2001)) \o to_bytes4(Long(MQCFT_STRING))
                 \o to_bytes4(Long(4)) \o <<255, 233, 65, 0>>),
    \* a string that declares more bytes than any buffer holds
    RawRec(2002, to_bytes4(Long(2002)) \o to_bytes4(Long(MQCFT_STRING))
                 \o to_bytes4(Long(1000)) \o <<65, 66, 67, 68>>),
    \* a record of a type the decoder does not dispatch on
    RawRec(7, to_bytes4(Long(7)) \o to_bytes4(Long(MQCFT_EVENT))),
    \* a byte string of four bytes
    RawRec(3, to_bytes4(Long(3)) \o to_bytes4(Long(MQCFT_BYTE_STRING))
              \o to_bytes4(Long(4)) \o <<171, 205, 0, 255>>),
    \* an integer list that declares 2^32 - 1 values
    RawRec(5, to_bytes4(Long(5)) \o to_bytes4(Long(MQCFT_INTEGER_LIST))
              \o to_bytes4(AllOnes) \o to_bytes4(Long(9))) }

\* records a corrupted or padded stream holds: eight zero bytes (id 0, type
\* 0), integers whose id is 2^24 - 1 and 2^24, and a string under the
\* extended id 0x0A000001, which get_parameter_name knows
FillerShapes ==
  { RawRec(0, Zeros(8)),
    IntRec(16777215, Long(1)),
    IntRec(16777216, Long(1)),
    StrRec(167772161, <<84, 101, 115, 116>>) }

EncodeRecord(r) ==
  IF r.kind = "int" THEN _create_integer_parameter(r.id, r.int)
  ELSE IF r.kind = "str" THEN _create_string_parameter(r.id, r.text)
  ELSE r.data

RECURSIVE EncodeRecords(_)
EncodeRecords(recs) ==
  IF recs = <<>> THEN <<>> ELSE EncodeRecord(recs[1]) \o EncodeRecords(Tail(recs))

\* the descriptions of the bodies: up to MaxRecords records
RECURSIVE RecordSeqs(_)
RecordSeqs(n) ==
  IF n = 0 THEN {<<>>}
  ELSE LET shorter == RecordSeqs(n - 1)
       IN  shorter \cup {Append(s, r) : s \in {x \in shorter : Len(x) = n - 1}, r \in RecordShapes}

\* the declared counts: the counts around the number of records and a count
\* far above it
SmallCounts == {Long(n) : n \in 0..(MaxRecords + 1)} \cup {Long(2000000)}

\* the counts a header is built with (signed=True: -1 is written as FF FF FF FF)
HeaderCounts == SmallCounts \cup {MinusOne}

\* the counts _parse_pcf_parameters is called with: those a header can
\* hold, and a negative one
Counts == SmallCounts \cup {AllOnes, MinusOne}

\* a buffer is cut short by this many bytes
Cuts == {0, 4, 5}

CutOff(b, k) == Slice(b, 0, Len(b) - k)

\* 1001 eight-byte records of an unsupported type
LongBody == [i \in 1..8008 |-> IF i % 8 = 4 \/ i % 8 = 0 THEN 7 ELSE 0]

\* the ids the resolvers are asked for: every key of either table, and ids
\* that are keys of neither, up to the largest 32-bit id
UnknownIds ==
  { Long(0), Long(99), Long(99999), Long(16777216), Long(2147483647),
    [hi |-> 32768, lo |-> 0], AllOnes }

ResolverIds ==
  {Long(PARAMETER_NAMES[i][1]) : i \in DOMAIN PARAMETER_NAMES}
  \cup {Long(param_names[i][1]) : i \in DOMAIN param_names}
  \cup UnknownIds

\* the values of the integer records decoded on their own: ints of
\* 0 .. 2^32 - 1 for to_bytes(4, 'big') and of -2^31 .. 2^31 - 1 for
\* to_bytes(4, 'big', signed=True)
Limbs == {0, 42, 32767, 32768, 65535}

UnsignedValues == {[hi |-> h, lo |-> l] : h \in Limbs, l \in Limbs}

SignedValues == {[hi |-> h, lo |-> l] : h \in {-32768, -1, 0, 42, 32767}, l \in Limbs}

\* the texts of the string records decoded on their own, over
\* NUL, space, "A", U+00E9, U+20AC and U+1F600
TextAlphabet == {0, 32, 65, 233, 8364, 128512}

RECURSIVE Texts(_)
Texts(n) ==
  IF n = 0 THEN {<<>>}
  ELSE LET shorter == Texts(n - 1)
       IN  shorter \cup {Append(t, c) : t \in {x \in shorter : Len(x) = n - 1}, c \in TextAlphabet}

\* the structure type the tests give a corrupted header: 0x16000000, the
\* bytes of MQCFT_ACCOUNTING in the opposite byte order
CorruptedSignature == 369098752

\* the structure types of the headers: the corrupted one, the kinds other
\* than statistics and accounting, and one of no kind
StructureTypes ==
  {Long(CorruptedSignature), Long(MQCFT_COMMAND), Long(MQCFT_RESPONSE),
   Long(MQCFT_EVENT), Long(MQCFT_REPORT), Long(0)}

\* the most parameters a message given to the extractors holds
MaxParameters == 2

\* a parameter of a parsed message, named as _parse_single_parameter names it
Parameter(id, value) ==
  [parameter_id |-> Long(id), parameter_name |-> get_parameter_name(Long(id)),
   value |-> value]

\* the parameters the messages for extract_queue_operations are made of:
\* every name it reads, names it does not read, values of another type, None
QueueParameters ==
  { Parameter(2001, TextValue(<<32, 81, 49, 32>>)),    \* MQCA_Q_NAME ' Q1 '
    Parameter(2001, IntValue(Long(5))),
    Parameter(52, IntValue(Long(300))),                \* MQIA_GET_COUNT
    Parameter(52, IntValue(MinusOne)),
    Parameter(51, IntValue(Long(500))),                \* MQIA_PUT_COUNT
    Parameter(51, TextValue(<<55>>)),
    Parameter(53, IntValue(Long(1))),                  \* MQIA_BROWSE_COUNT
    Parameter(15, IntValue(Long(2))),                  \* MQIA_OPEN_INPUT_COUNT
    Parameter(15, NoneValue),
    Parameter(16, IntValue(Long(3))),                  \* MQIA_OPEN_OUTPUT_COUNT
    Parameter(16, IntValue(Long(0))),
    Parameter(18, IntValue(Long(4))),                  \* MQIA_MSG_ENQ_COUNT
    Parameter(19, IntValue(Long(5))),                  \* MQIA_MSG_DEQ_COUNT
    Parameter(14, IntValue(Long(6))),                  \* MQIA_CURRENT_Q_DEPTH
    Parameter(2, IntValue(Long(7))),                   \* MQIA_MAX_Q_DEPTH
    Parameter(671088640, IntValue(Long(8))),           \* MQIA_PUT_BYTES
    Parameter(671088641, IntValue(Long(9))),           \* MQIA_GET_BYTES
    Parameter(536870912, IntValue(Long(10))),          \* MQIA_PUT_TIME
    Parameter(536870913, IntValue(Long(11))),          \* MQIA_GET_TIME
    Parameter(20, IntValue(Long(1))),                  \* MQIA_TIME_SINCE_RESET
    Parameter(99999, ListValue(<<Long(1)>>)) }

\* the parameters the messages for extract_connection_info are made of
ConnectionParameters ==
  { Parameter(3501, TextValue(<<32, 67, 72, 32>>)),    \* MQCACH_CHANNEL_NAME ' CH '
    Parameter(3505, TextValue(<<49, 46, 50, 40, 51, 41>>)),  \* MQCACH_CONNECTION_NAME
    Parameter(167772161, TextValue(<<65, 46, 101, 120, 101>>)),  \* MQCA_APPL_NAME 'A.exe'
    Parameter(167772161, IntValue(Long(1))),
    Parameter(3510, TextValue(<<109, 113, 109, 9>>)),  \* MQCACH_USER_ID 'mqm\t'
    Parameter(59, IntValue(Long(2))),                  \* MQIA_CONNECT_COUNT
    Parameter(60, IntValue(Long(1))),                  \* MQIA_DISC_COUNT
    Parameter(1501, IntValue(Long(6))),                \* MQIACH_CHANNEL_TYPE
    Parameter(1501, IntValue(Long(99))),
    Parameter(1502, IntValue(Long(2))),                \* MQIACH_TRANSPORT_TYPE
    Parameter(1502, IntValue(Long(0))),
    Parameter(1531, IntValue(Long(13))),               \* MQIACH_CHANNEL_STATUS
    Parameter(1531, IntValue(MinusOne)),
    Parameter(1531, NoneValue),
    Parameter(2001, TextValue(<<81, 49>>)) }           \* MQCA_Q_NAME

\* the lists of at most n parameters of the set pool
RECURSIVE ParameterLists(_, _)
ParameterLists(pool, n) ==
  IF n = 0 THEN {<<>>}
  ELSE LET shorter == ParameterLists(pool, n - 1)
       IN  shorter \cup {Append(l, p) : l \in {x \in shorter : Len(x) = n - 1}, p \in pool}

\* a parsed message: the dict parse_message returns
ParsedMessage(parameters) ==
  [keys |-> {"header", "parameters", "message_size"}, parameters |-> parameters]

\* the messages without a parameter list: None, {} and a dict with a header only
MessagesWithoutParameters ==
  {None, [keys |-> {}, parameters |-> <<>>], [keys |-> {"header"}, parameters |-> <<>>]}

QueueMessages ==
  MessagesWithoutParameters
  \cup {ParsedMessage(l) : l \in ParameterLists(QueueParameters, MaxParameters)}

ConnectionMessages ==
  MessagesWithoutParameters
  \cup {ParsedMessage(l) : l \in ParameterLists(ConnectionParameters, MaxParameters)}

\* the messages the parser processes between a call and its repetition
OtherMessages ==
  {ParsedMessage(<<Parameter(2001, TextValue(<<79>>)), Parameter(52, IntValue(Long(1)))>>),
   ParsedMessage(<<>>)}

\* the most pieces a raw buffer given to extract_application_info is made of
MaxPieces == 3

\* an executable-style file name, a dotted-quad address with a parenthesised
\* port, and the buffer of the self-test of enhanced_pcf_extractor.py
FileName == <<97, 46, 101, 120, 101>>                     \* a.exe

AddressWithPort == <<49, 46, 50, 46, 51, 46, 52, 40, 56, 48, 41>>   \* 1.2.3.4(80)

\* the pieces of the raw buffers: the two above, NUL, an address without
\* port, a port after a colon, the MQ sample program, a script name in
\* capitals and a byte that is not UTF-8
Pieces ==
  { FileName, AddressWithPort, <<0>>,
    <<53, 46, 54, 46, 55, 46, 56>>,                   \* 5.6.7.8
    <<58, 57>>,                                   \* :9
    <<97, 109, 113, 115, 112, 117, 116>>,           \* amqsput
    <<66, 46, 80, 89>>,                           \* B.PY
    <<255>> }

\* the sequences of at most n pieces
RECURSIVE PieceSeqs(_)
PieceSeqs(n) ==
  IF n = 0 THEN {<<>>}
  ELSE LET shorter == PieceSeqs(n - 1)
       IN  shorter \cup {Append(l, p) : l \in {x \in shorter : Len(x) = n - 1}, p \in Pieces}

\* b''.join(pieces)
RECURSIVE Join(_)
Join(pieces) == IF pieces = <<>> THEN <<>> ELSE Head(pieces) \o Join(Tail(pieces))

\* a parameter as _parse_structured_pcf reads it: a word it takes for the
\* type, a word it takes for the length, and the data
StructuredRecord(param_type, param_length, data) ==
  to_bytes4(Long(param_type)) \o to_bytes4(Long(param_length)) \o data

\* the parameters of the buffers with a header: the names and addresses
\* _parse_structured_pcf reads, values it does not use, a parameter it does
\* not read, and a length below 8
StructuredRecords ==
  { StructuredRecord(2001, 16, FileName \o <<0, 0, 0>>),
    StructuredRecord(3001, 16, unknown \o <<0>>),
    StructuredRecord(2001, 12, <<0, 0, 0, 0>>),
    StructuredRecord(2003, 20, AddressWithPort \o <<0>>),
    StructuredRecord(1269, 12, <<104, 111, 115, 116>>),         \* host
    StructuredRecord(7, 16, <<98, 46, 106, 97, 114>> \o <<0, 0, 0>>),   \* b.jar
    StructuredRecord(2001, 4, FileName \o <<0, 0, 0>>) }

\* the buffers with a header: 36 bytes, then at most MaxRecords parameters
StructuredBuffers ==
  {Zeros(PCF_HEADER_SIZE) \o Join(l) : l \in ParameterLists(StructuredRecords, MaxRecords)}

\* the records of the well-formed messages given to the structured tier:
\* records of the tests' encoders, among them strings under the ids
\* _parse_structured_pcf reads as application names (2001, 3001) and under
\* the ids the tables name MQCA_APPL_NAME
WellFormedShapes ==
  { IntRec(3004, Long(42)),
    StrRec(2016, <<84, 69, 83, 84, 46, 81, 85, 69, 85, 69>>),    \* "TEST.QUEUE"
    StrRec(2001, FileName),
    StrRec(3001, <<84, 101, 115, 116>>),                         \* "Test"
    StrRec(MQCA_APPL_NAME, <<84, 101, 115, 116>>),
    StrRec(167772161, <<84, 101, 115, 116>>) }

\* the most messages the accounting queue holds
MaxMessages == 2

\* a message of the accounting queue: a header that declares its records,
\* then integer records
AccountingMessage(recs) ==
  _create_pcf_header(Long(MQCFT_ACCOUNTING), Long(150), Long(Len(recs))) \o EncodeRecords(recs)

\* the messages of the accounting queue: messages the parser decodes, with
\* no record, with the open-input count (id 15) and the open-output count
\* (id 16) zero or not, and buffers shorter than a header, which it does
\* not decode: "GET", "PUT", and four bytes whose digits hold those of "GET"
AccountingMessages ==
  { AccountingMessage(<<>>),
    AccountingMessage(<<IntRec(15, Long(2))>>),
    AccountingMessage(<<IntRec(16, Long(1))>>),
    AccountingMessage(<<IntRec(15, Long(2)), IntRec(16, Long(1))>>),
    AccountingMessage(<<IntRec(15, Long(0))>>),
    <<71, 69, 84>>,
    <<80, 85, 84>>,
    <<4, 116, 85, 64>> }

\* the statistics_data lists given to _generate_summary
StatisticsData ==
  { <<>>,
    <<[statistics_type |-> "queue_statistics"], [statistics_type |-> "channel_statistics"]>>,
    <<[statistics_type |-> "queue_statistics"], [message_type |-> "statistics"],
      [statistics_type |-> "queue_statistics"]>> }

---------------------------------------------------------------------------
(* The operations *)

\* PCFParser.__init__: the instance holds its logger and nothing else
PCFParser == [logger |-> "pcf_parser"]

Init ==
  /\ pc = "idle"
  /\ op = "none"
  /\ arg = None
  /\ ret = Ok(None)
  /\ calls = <<>>
  /\ parser = PCFParser
  /\ first = None
  /\ loop = None
  /\ collection = None
  /\ monitoring = None

\* parser.parse_message(message), on a header followed by records and cut short
ParseMessage ==
  /\ pc = "idle"
  /\ \E recs \in RecordSeqs(MaxRecords), count \in HeaderCounts, cut \in Cuts,
        msg_type \in {Long(MQCFT_STATISTICS), Long(MQCFT_ACCOUNTING)} :
       LET message == CutOff(_create_pcf_header(msg_type, Long(150), count)
                             \o EncodeRecords(recs), cut)
       IN  /\ arg' = [message |-> message, recs |-> recs, count |-> count, cut |-> cut]
           /\ \E r \in {parse_message(message)} :
                /\ ret' = [exc |-> r.exc, val |-> r.val]
                /\ calls' = r.calls
  /\ op' = "parse_message"
  /\ pc' = "returned"
  /\ UNCHANGED <<parser, first, loop, collection, monitoring>>

\* parser.parse_message(message) on a message whose header holds a structure
\* type of another kind, or the one the tests call corrupted
ParseMessageOfType ==
  /\ pc = "idle"
  /\ \E recs \in RecordSeqs(1), count \in {Long(0), Long(1), Long(2000000)},
        msg_type \in StructureTypes :
       LET message == _create_pcf_header(msg_type, Long(150), count) \o EncodeRecords(recs)
       IN  /\ arg' = [message |-> message, recs |-> recs, count |-> count, cut |-> 0]
           /\ \E r \in {parse_message(message)} :
                /\ ret' = [exc |-> r.exc, val |-> r.val]
                /\ calls' = r.calls
  /\ op' = "parse_message"
  /\ pc' = "returned"
  /\ UNCHANGED <<parser, first, loop, collection, monitoring>>

\* tests/test_core_functionality.py test_corruption_detection:
\* parser.parse_message(b'\x16\x00\x00\x00' + b'\x00' * 100)
ParseCorruptedData ==
  /\ pc = "idle"
  /\ \E message \in {to_bytes4(Long(CorruptedSignature)) \o Zeros(100)} :
       /\ arg' = [message |-> message, recs |-> <<>>, count |-> Long(0), cut |-> 0]
       /\ \E r \in {parse_message(message)} :
            /\ ret' = [exc |-> r.exc, val |-> r.val]
            /\ calls' = r.calls
  /\ op' = "parse_message"
  /\ pc' = "returned"
  /\ UNCHANGED <<parser, first, loop, collection, monitoring>>

\* parser.parse_message(message) on a buffer shorter than a header
ParseShortMessage ==
  /\ pc = "idle"
  /\ \E len \in 0..(PCF_HEADER_SIZE - 1), count \in {Long(0), Long(1)} :
       LET message == Slice(_create_pcf_header(Long(MQCFT_STATISTICS), Long(150), count), 0, len)
       IN  /\ arg' = [message |-> message, recs |-> <<>>, count |-> count,
                      cut |-> PCF_HEADER_SIZE - len]
           /\ \E r \in {parse_message(message)} :
                /\ ret' = [exc |-> r.exc, val |-> r.val]
                /\ calls' = r.calls
  /\ op' = "parse_message"
  /\ pc' = "returned"
  /\ UNCHANGED <<parser, first, loop, collection, monitoring>>

\* parser._parse_pcf_parameters(param_bytes, param_count)
ParsePcfParameters ==
  /\ pc = "idle"
  /\ \E recs \in RecordSeqs(MaxRecords), count \in Counts, cut \in Cuts :
       LET param_bytes == CutOff(EncodeRecords(recs), cut)
       IN  /\ arg' = [param_bytes |-> param_bytes, recs |-> recs, count |-> count, cut |-> cut]
           /\ \E st \in {ParametersLoop(param_bytes, count)} :
                /\ ret' = LoopResult(st)
                /\ loop' = [offsets |-> st.offsets, offset |-> st.offset, stopped |-> st.stopped]
  /\ op' = "_parse_pcf_parameters"
  /\ calls' = <<>>
  /\ pc' = "returned"
  /\ UNCHANGED <<parser, first, collection, monitoring>>

\* parser._parse_pcf_parameters on a body that holds a filler record, after
\* and before at most one other record
ParseFillerBody ==
  /\ pc = "idle"
  /\ \E before \in RecordSeqs(1), filler \in FillerShapes, after \in RecordSeqs(1),
        count \in Counts :
       LET recs == before \o <<filler>> \o after
           param_bytes == EncodeRecords(recs)
       IN  /\ arg' = [param_bytes |-> param_bytes, recs |-> recs, count |-> count, cut |-> 0]
           /\ \E st \in {ParametersLoop(param_bytes, count)} :
                /\ ret' = LoopResult(st)
                /\ loop' = [offsets |-> st.offsets, offset |-> st.offset, stopped |-> st.stopped]
  /\ op' = "_parse_pcf_parameters"
  /\ calls' = <<>>
  /\ pc' = "returned"
  /\ UNCHANGED <<parser, first, collection, monitoring>>

\* parser._parse_pcf_parameters on a body of 1001 records with a declared
\* count of 2,000,000
ParseLongBody ==
  /\ pc = "idle"
  /\ arg' = [param_bytes |-> LongBody, recs |-> <<>>, count |-> Long(2000000), cut |-> 0]
  /\ \E st \in {ParametersLoop(LongBody, Long(2000000))} :
       /\ ret' = LoopResult(st)
       /\ loop' = [offsets |-> st.offsets, offset |-> st.offset, stopped |-> st.stopped]
  /\ op' = "_parse_pcf_parameters"
  /\ calls' = <<>>
  /\ pc' = "returned"
  /\ UNCHANGED <<parser, first, collection, monitoring>>

\* parser._parse_integer_parameter(param_bytes) on an encoded integer record
ParseIntegerParameter ==
  /\ pc = "idle"
  /\ \E id \in {Long(3004), AllOnes}, signed \in BOOLEAN :
       \E v \in IF signed THEN SignedValues ELSE UnsignedValues :
         LET param_bytes == IF signed THEN _create_integer_parameter(id, v)
                            ELSE IntegerRecordUnsigned(id, v)
         IN  /\ arg' = [param_bytes |-> param_bytes, id |-> id, value |-> v, signed |-> signed]
             /\ ret' = _parse_integer_parameter(param_bytes)
  /\ op' = "_parse_integer_parameter"
  /\ calls' = <<>>
  /\ pc' = "returned"
  /\ UNCHANGED <<parser, first, loop, collection, monitoring>>

\* parser._parse_string_parameter(param_bytes) on an encoded string record,
\* alone in its buffer or followed by padding
ParseStringParameter ==
  /\ pc = "idle"
  /\ \E id \in {Long(2016)}, t \in Texts(MaxTextLen), padded \in BOOLEAN :
       LET param_bytes == IF padded THEN _create_string_parameter(id, t)
                          ELSE StringRecordUnpadded(id, encode_utf8(t))
       IN  /\ arg' = [param_bytes |-> param_bytes, id |-> id, text |-> t]
           /\ ret' = _parse_string_parameter(param_bytes)
  /\ op' = "_parse_string_parameter"
  /\ calls' = <<>>
  /\ pc' = "returned"
  /\ UNCHANGED <<parser, first, loop, collection, monitoring>>

\* parser.get_parameter_name(param_id)
GetParameterName ==
  /\ pc = "idle"
  /\ \E id \in ResolverIds :
       /\ arg' = [param_id |-> id]
       /\ ret' = Ok(get_parameter_name(id))
  /\ op' = "get_parameter_name"
  /\ calls' = <<>>
  /\ pc' = "returned"
  /\ UNCHANGED <<parser, first, loop, collection, monitoring>>

\* mq_constants.get_parameter_name(param_id)
ConstantsGetParameterName ==
  /\ pc = "idle"
  /\ \E id \in ResolverIds :
       /\ arg' = [param_id |-> id]
       /\ ret' = Ok(constants_get_parameter_name(id))
  /\ op' = "mq_constants.get_parameter_name"
  /\ calls' = <<>>
  /\ pc' = "returned"
  /\ UNCHANGED <<parser, first, loop, collection, monitoring>>

\* parser.extract_queue_operations(parsed_message)
ExtractQueueOperations ==
  /\ pc = "idle"
  /\ \E parsed_message \in QueueMessages :
       /\ arg' = [parsed_message |-> parsed_message]
       /\ \E r \in {extract_queue_operations(parser, parsed_message)} :
            /\ ret' = Ok(r.val)
            /\ parser' = r.self
  /\ op' = "extract_queue_operations"
  /\ calls' = <<>>
  /\ first' = None
  /\ pc' = "returned"
  /\ UNCHANGED <<loop, collection, monitoring>>

\* the caller keeps the result and has the same parser process another message
ExtractQueueOperationsBetween ==
  /\ pc = "returned"
  /\ op = "extract_queue_operations"
  /\ first = None
  /\ \E other \in OtherMessages :
       /\ arg' = [parsed_message |-> other]
       /\ \E r \in {extract_queue_operations(parser, other)} :
            /\ ret' = Ok(r.val)
            /\ parser' = r.self
  /\ first' = [parsed_message |-> arg.parsed_message, val |-> ret.val, between |-> TRUE]
  /\ UNCHANGED <<op, calls, pc, loop, collection, monitoring>>

\* the caller calls parser.extract_queue_operations again, on the message
\* of its first call
ExtractQueueOperationsAgain ==
  /\ pc = "returned"
  /\ op = "extract_queue_operations"
  /\ \E call \in {IF first = None
                   THEN [parsed_message |-> arg.parsed_message, val |-> ret.val,
                         between |-> FALSE]
                   ELSE first} :
       /\ first' = call
       /\ arg' = [parsed_message |-> call.parsed_message]
       /\ \E r \in {extract_queue_operations(parser, call.parsed_message)} :
            /\ ret' = Ok(r.val)
            /\ parser' = r.self
  /\ pc' = "repeated"
  /\ UNCHANGED <<op, calls, loop, collection, monitoring>>

\* parser.extract_connection_info(parsed_message)
ExtractConnectionInfo ==
  /\ pc = "idle"
  /\ \E parsed_message \in ConnectionMessages :
       /\ arg' = [parsed_message |-> parsed_message]
       /\ ret' = Ok(extract_connection_info(parsed_message))
  /\ op' = "extract_connection_info"
  /\ calls' = <<>>
  /\ pc' = "returned"
  /\ UNCHANGED <<parser, first, loop, collection, monitoring>>

\* extractor.extract_application_info(message_data) on a raw buffer
ExtractApplicationInfo ==
  /\ pc = "idle"
  /\ \E pieces \in PieceSeqs(MaxPieces) :
       /\ arg' = [message_data |-> Join(pieces), pieces |-> pieces]
       /\ \E r \in {extract_application_info(Join(pieces))} :
            /\ ret' = Ok(r.val)
            /\ calls' = r.calls
  /\ op' = "extract_application_info"
  /\ pc' = "returned"
  /\ UNCHANGED <<parser, first, loop, collection, monitoring>>

\* extractor.extract_application_info(message_data) on a buffer with a header
ExtractStructuredApplicationInfo ==
  /\ pc = "idle"
  /\ \E message_data \in StructuredBuffers :
       /\ arg' = [message_data |-> message_data, pieces |-> <<>>]
       /\ \E r \in {extract_application_info(message_data)} :
            /\ ret' = Ok(r.val)
            /\ calls' = r.calls
  /\ op' = "extract_application_info"
  /\ pc' = "returned"
  /\ UNCHANGED <<parser, first, loop, collection, monitoring>>

\* extractor._parse_structured_pcf(data) on a well-formed message: a header
\* that declares its records, then records of the tests' encoders
ParseStructuredPcf ==
  /\ pc = "idle"
  /\ \E recs \in ParameterLists(WellFormedShapes, MaxRecords) :
       LET data == _create_pcf_header(Long(MQCFT_ACCOUNTING), Long(150), Long(Len(recs)))
                   \o EncodeRecords(recs)
       IN  /\ arg' = [data |-> data, recs |-> recs, count |-> Long(Len(recs))]
           /\ \E st \in {StructuredWalk(data)} :
                /\ ret' = Ok(st.info)
                /\ loop' = [offsets |-> st.offsets, offset |-> st.offset,
                            stopped |-> st.offset < Len(data) - 8]
  /\ op' = "_parse_structured_pcf"
  /\ calls' = <<>>
  /\ pc' = "returned"
  /\ UNCHANGED <<parser, first, collection, monitoring>>

\* MQStatsReader.__init__: no queue manager yet, a parser of its own
MQStatsReader == [qmgr |-> None, pcf_parser |-> PCFParser]

\* reader._generate_summary(statistics_data, accounting_data), accounting_data
\* being what reader.read_accounting_queue() returned for the messages the
\* accounting queue held
GenerateSummary ==
  /\ pc = "idle"
  /\ \E messages \in ParameterLists(AccountingMessages, MaxMessages),
        statistics_data \in StatisticsData :
       \E accounting_data \in {read_accounting_queue(MQStatsReader, messages)} :
         /\ accounting_data.exc = ""
         /\ arg' = [messages |-> messages, statistics_data |-> statistics_data,
                    accounting_data |-> accounting_data.val]
         /\ ret' = Ok(_generate_summary(statistics_data, accounting_data.val))
  /\ op' = "_generate_summary"
  /\ calls' = <<>>
  /\ pc' = "returned"
  /\ UNCHANGED <<parser, first, loop, collection, monitoring>>

---------------------------------------------------------------------------
(* MQStatsReader: the connection, and run *)

\* reader.connect_to_mq(): the queue manager object is made, and
\* connect_with_options either connects it (True) or raises MQMIError,
\* ConnectionError or OSError, which the method answers with False
connect_to_mq(self) ==
  { [self |-> [self EXCEPT !.qmgr = [is_connected |-> TRUE]], ret |-> Ok(TRUE)],
    [self |-> [self EXCEPT !.qmgr = [is_connected |-> FALSE]], ret |-> Ok(FALSE)] }

\* reader.disconnect_from_mq(): with a queue manager object, disconnect() is
\* called; an MQMIError it raises is logged and the connection is as before
disconnect_from_mq(self) ==
  IF self.qmgr = None
    THEN { self }
    ELSE { [self EXCEPT !.qmgr = [is_connected |-> FALSE]], self }

\* the statistics_data lists reader.read_statistics_queue() returns
QueuedStatistics ==
  { <<>>, <<[statistics_type |-> "queue_statistics"]>> }

\* what the accounting queue holds when reader.read_accounting_queue() runs
QueuedMessages ==
  { <<>>, <<AccountingMessage(<<IntRec(15, Long(2))>>)>> }

\* the methods run calls after connect_to_mq returned True, when the body of
\* its try is left after `done` of its calls (by an exception, or all of them
\* made, by return): the finally block calls disconnect_from_mq either way
RunBodyCalls(reset_after_read) ==
  <<"read_statistics_queue", "read_accounting_queue">>
    \o (IF reset_after_read THEN <<"reset_statistics">> ELSE <<>>)
    \o <<"format_output">>

RunCalls(body, done) ==
  <<"connect_to_mq">> \o SubSeq(body, 1, done) \o <<"disconnect_from_mq">>

\* reader.run(): None when the connection fails or the body raises
\* ValueError, TypeError or KeyError, the output when the body completes
Run ==
  /\ pc = "idle"
  /\ \E reset_after_read \in BOOLEAN, o \in connect_to_mq(MQStatsReader) :
       /\ arg' = [reset_after_read |-> reset_after_read, connected |-> o.ret.val]
       /\ IF ~ o.ret.val
            THEN /\ calls' = <<"connect_to_mq">>
                 /\ ret' = Ok(None)
            ELSE \E body \in {RunBodyCalls(reset_after_read)} :
                   \E done \in 0..Len(body) :
                     /\ calls' = RunCalls(body, done)
                     /\ ret' = IF done = Len(body) THEN Ok("output") ELSE Ok(None)
  /\ op' = "run"
  /\ pc' = "returned"
  /\ UNCHANGED <<parser, first, loop, collection, monitoring>>

---------------------------------------------------------------------------
(* main.py: single_collection *)

\* the frame of single_collection(args) on entry: reader = MQStatsReader()
SingleCollectionFrame(args) ==
  [pc |-> "connect", args |-> args, reader |-> MQStatsReader,
   connected |-> None, statistics_data |-> None, accounting_data |-> None,
   result |-> None]

At(position) ==
  collection # None /\ collection.pc = position

\* return <result>
ReturnWith(frame, result) ==
  [frame EXCEPT !.result = result, !.pc = "return"]

\* main() calls single_collection(args)
SingleCollection ==
  /\ pc = "idle"
  /\ \E reset_stats \in BOOLEAN :
       /\ arg' = [reset_stats |-> reset_stats]
       /\ collection' = SingleCollectionFrame([reset_stats |-> reset_stats])
  /\ op' = "single_collection"
  /\ calls' = <<>>
  /\ pc' = "running"
  /\ UNCHANGED <<ret, parser, first, loop, monitoring>>

\* if not reader.connect_to_mq(): return 1
Connect ==
  /\ At("connect")
  /\ \E o \in connect_to_mq(collection.reader) :
       collection' =
         IF o.ret.val
           THEN [collection EXCEPT !.reader = o.self, !.connected = TRUE,
                                   !.pc = "read_statistics"]
           ELSE ReturnWith([collection EXCEPT !.reader = o.self, !.connected = FALSE], 1)
  /\ calls' = Append(calls, "connect_to_mq")
  /\ UNCHANGED <<pc, op, arg, ret, parser, first, loop, monitoring>>

\* statistics_data = reader.read_statistics_queue()
ReadStatistics ==
  /\ At("read_statistics")
  /\ \E statistics_data \in QueuedStatistics :
       collection' = [collection EXCEPT !.statistics_data = statistics_data,
                                        !.pc = "read_accounting"]
  /\ calls' = Append(calls, "read_statistics_queue")
  /\ UNCHANGED <<pc, op, arg, ret, parser, first, loop, monitoring>>

\* accounting_data = reader.read_accounting_queue(); an exception that
\* leaves it is caught by except Exception: return 1
ReadAccounting ==
  /\ At("read_accounting")
  /\ \E messages \in QueuedMessages :
       \E r \in {read_accounting_queue(collection.reader, messages)} :
         collection' =
           IF r.exc = ""
             THEN [collection EXCEPT !.accounting_data = r.val, !.pc = "check"]
             ELSE ReturnWith(collection, 1)
  /\ calls' = Append(calls, "read_accounting_queue")
  /\ UNCHANGED <<pc, op, arg, ret, parser, first, loop, monitoring>>

\* if not statistics_data and not accounting_data: return 0
CheckData ==
  /\ At("check")
  /\ collection' =
       IF collection.statistics_data = <<>> /\ collection.accounting_data = <<>>
         THEN ReturnWith(collection, 0)
         ELSE [collection EXCEPT !.pc = "format"]
  /\ UNCHANGED <<pc, op, arg, ret, calls, parser, first, loop, monitoring>>

\* output = reader.format_output(statistics_data, accounting_data): the text
\* has no part in what follows but being written
FormatOutput ==
  /\ At("format")
  /\ collection' = [collection EXCEPT !.pc = "write"]
  /\ calls' = Append(calls, "format_output")
  /\ UNCHANGED <<pc, op, arg, ret, parser, first, loop, monitoring>>

\* with open(output_file, 'w', encoding='utf-8') as f: f.write(output); an
\* OSError of open or write is caught by except Exception: return 1
WriteOutput ==
  /\ At("write")
  /\ \E written \in BOOLEAN :
       collection' =
         IF written
           THEN [collection EXCEPT
                   !.pc = IF collection.args.reset_stats THEN "reset" ELSE "disconnect"]
           ELSE ReturnWith(collection, 1)
  /\ UNCHANGED <<pc, op, arg, ret, calls, parser, first, loop, monitoring>>

\* if args.reset_stats: reader.reset_statistics()
ResetStatistics ==
  /\ At("reset")
  /\ collection' = [collection EXCEPT !.pc = "disconnect"]
  /\ calls' = Append(calls, "reset_statistics")
  /\ UNCHANGED <<pc, op, arg, ret, parser, first, loop, monitoring>>

\* reader.disconnect_from_mq(); return 0
Disconnect ==
  /\ At("disconnect")
  /\ \E reader \in disconnect_from_mq(collection.reader) :
       collection' = ReturnWith([collection EXCEPT !.reader = reader], 0)
  /\ calls' = Append(calls, "disconnect_from_mq")
  /\ UNCHANGED <<pc, op, arg, ret, parser, first, loop, monitoring>>

\* single_collection returns, to main() or to the cycle of
\* continuous_monitoring that called it (result = single_collection(...))
SingleCollectionReturn ==
  /\ At("return")
  /\ collection' = None
  /\ IF monitoring = None
       THEN /\ pc' = "returned"
            /\ ret' = Ok(collection.result)
            /\ arg' = [reset_stats |-> collection.args.reset_stats,
                       connected |-> collection.connected,
                       reader |-> collection.reader]
            /\ UNCHANGED monitoring
       ELSE /\ monitoring' = [monitoring EXCEPT !.result = collection.result,
                                                !.finished = @ + 1,
                                                !.pc = "collected"]
            /\ UNCHANGED <<pc, ret, arg>>
  /\ UNCHANGED <<op, calls, parser, first, loop>>

---------------------------------------------------------------------------
(* main.py: continuous_monitoring *)

\* the largest --max-cycles, and the number of cycles an unlimited run
\* (--max-cycles 0) is followed for
MaxCycles == 2

\* the largest --interval
MaxInterval == 2

\* the frame of continuous_monitoring(args) when the handlers are installed:
\* finished counts the cycles whose single_collection returned, signal is
\* where the first signal found the function
ContinuousMonitoringFrame(args) ==
  [pc |-> "while", args |-> args, shutdown_requested |-> FALSE,
   cycle_count |-> 0, result |-> None, waited |-> 0, finished |-> 0,
   signal |-> None]

In(position) ==
  monitoring # None /\ collection = None /\ monitoring.pc = position

\* main() calls continuous_monitoring(args)
ContinuousMonitoring ==
  /\ pc = "idle"
  /\ \E interval \in 0..MaxInterval, max_cycles \in 0..MaxCycles :
       /\ arg' = [interval |-> interval, max_cycles |-> max_cycles]
       /\ monitoring' = ContinuousMonitoringFrame(
                          [interval |-> interval, max_cycles |-> max_cycles])
  /\ op' = "continuous_monitoring"
  /\ calls' = <<>>
  /\ pc' = "running"
  /\ UNCHANGED <<ret, parser, first, loop, collection>>

\* signal_handler(signum, frame), for SIGINT or SIGTERM, wherever the
\* function is: shutdown_requested = True
SignalHandler ==
  /\ monitoring # None
  /\ ~ monitoring.shutdown_requested
  /\ monitoring' =
       [monitoring EXCEPT
          !.shutdown_requested = TRUE,
          !.signal = [cycle_count |-> monitoring.cycle_count,
                      during |-> IF collection # None THEN "single_collection"
                                 ELSE monitoring.pc]]
  /\ UNCHANGED <<pc, op, arg, ret, calls, parser, first, loop, collection>>

\* while not shutdown_requested
WhileOmittingTest(frame) ==
  [frame EXCEPT !.pc = "cycle"]

While(frame) ==
  [frame EXCEPT !.pc = IF ~ frame.shutdown_requested THEN "cycle" ELSE "return"]

MonitoringWhile ==
  /\ In("while")
  /\ monitoring.shutdown_requested
       \/ monitoring.args.max_cycles > 0
       \/ monitoring.cycle_count < MaxCycles
  /\ monitoring' = While(monitoring)
  /\ UNCHANGED <<pc, op, arg, ret, calls, parser, first, loop, collection>>

\* cycle_count += 1; collection_args.reset_stats = True;
\* result = single_collection(collection_args)
MonitoringCycle ==
  /\ In("cycle")
  /\ monitoring' = [monitoring EXCEPT !.cycle_count = @ + 1, !.pc = "collect"]
  /\ collection' = SingleCollectionFrame([reset_stats |-> TRUE])
  /\ calls' = <<>>
  /\ UNCHANGED <<pc, op, arg, ret, parser, first, loop>>

\* if args.max_cycles > 0 and cycle_count >= args.max_cycles: break
Collected(frame) ==
  [frame EXCEPT
     !.pc = IF frame.args.max_cycles > 0 /\ frame.cycle_count >= frame.args.max_cycles
              THEN "return" ELSE "wait"]

MonitoringCollected ==
  /\ In("collected")
  /\ monitoring' = Collected(monitoring)
  /\ UNCHANGED <<pc, op, arg, ret, calls, parser, first, loop, collection>>

\* if not shutdown_requested: for _ in range(args.interval): ...
MonitoringWait ==
  /\ In("wait")
  /\ monitoring' =
       IF ~ monitoring.shutdown_requested
         THEN [monitoring EXCEPT !.waited = 0, !.pc = "sleep"]
         ELSE [monitoring EXCEPT !.pc = "while"]
  /\ UNCHANGED <<pc, op, arg, ret, calls, parser, first, loop, collection>>

\* one pass of for _ in range(args.interval): if shutdown_requested: break;
\* time.sleep(1)
MonitoringSleep ==
  /\ In("sleep")
  /\ monitoring' =
       IF monitoring.waited < monitoring.args.interval /\ ~ monitoring.shutdown_requested
         THEN [monitoring EXCEPT !.waited = @ + 1]
         ELSE [monitoring EXCEPT !.pc = "while"]
  /\ UNCHANGED <<pc, op, arg, ret, calls, parser, first, loop, collection>>

\* return 0
MonitoringReturn ==
  /\ In("return")
  /\ monitoring' = None
  /\ arg' = [interval |-> monitoring.args.interval,
             max_cycles |-> monitoring.args.max_cycles,
             cycle_count |-> monitoring.cycle_count,
             finished |-> monitoring.finished,
             result |-> monitoring.result,
             shutdown_requested |-> monitoring.shutdown_requested,
             signal |-> monitoring.signal]
  /\ ret' = Ok(0)
  /\ pc' = "returned"
  /\ UNCHANGED <<op, calls, parser, first, loop, collection>>

\* the steps of main.py: the interpreter takes the next one whenever there
\* is one
MainStep ==
  \/ Connect
  \/ ReadStatistics
  \/ ReadAccounting
  \/ CheckData
  \/ FormatOutput
  \/ WriteOutput
  \/ ResetStatistics
  \/ Disconnect
  \/ SingleCollectionReturn
  \/ MonitoringWhile
  \/ MonitoringCycle
  \/ MonitoringCollected
  \/ MonitoringWait
  \/ MonitoringSleep
  \/ MonitoringReturn

\* the caller takes the result; the parser keeps nothing of the call
Return ==
  /\ pc \in {"returned", "repeated"}
  /\ pc' = "idle"
  /\ op' = "none"
  /\ arg' = None
  /\ ret' = Ok(None)
  /\ calls' = <<>>
  /\ first' = None
  /\ loop' = None
  /\ UNCHANGED <<parser, collection, monitoring>>

Next ==
  \/ ParseMessage
  \/ ParseMessageOfType
  \/ ParseCorruptedData
  \/ ParseShortMessage
  \/ ParsePcfParameters
  \/ ParseFillerBody
  \/ ParseLongBody
  \/ ParseIntegerParameter
  \/ ParseStringParameter
  \/ GetParameterName
  \/ ConstantsGetParameterName
  \/ ExtractQueueOperations
  \/ ExtractQueueOperationsBetween
  \/ ExtractQueueOperationsAgain
  \/ ExtractConnectionInfo
  \/ ExtractApplicationInfo
  \/ ExtractStructuredApplicationInfo
  \/ ParseStructuredPcf
  \/ GenerateSummary
  \/ Run
  \/ SingleCollection
  \/ ContinuousMonitoring
  \/ SignalHandler
  \/ MainStep
  \/ Return

Spec == Init /\ [][Next]_vars

\* the interpreter keeps running the code of main.py: a step that can be
\* taken is taken; nothing obliges a signal to arrive
FairSpec == Spec /\ WF_vars(MainStep)

---------------------------------------------------------------------------
(* Properties of parse_message and of the parameter stream decoder *)

\* the operation o has returned
Returned(o) == pc = "returned" /\ op = o

\* C1: for every buffer shorter than 36 bytes, the empty one included,
\* parse_message returns None without raising and runs neither the header
\* decoder nor the parameter decoder
C1_ShortBufferReturnsNone ==
  (Returned("parse_message") /\ Len(arg.message) < 36)
    => (ret.exc = "" /\ ret.val = None /\ calls = <<>>)

\* a buffer of 35 bytes was given to parse_message, which returned None
C1_Witness ==
  /\ Returned("parse_message")
  /\ Len(arg.message) = 35
  /\ ret.val = None
  /\ calls = <<>>

\* the parameter_count field of a buffer that holds a full header
DeclaredCount(message) == Slice(message, 32, 36)

\* C2: for every buffer of at least 36 bytes whose header declares
\* parameter_count = 0, parse_message returns a message with an empty
\* parameter list, whatever bytes follow the header
C2_ZeroCountEmptyList ==
  (Returned("parse_message") /\ Len(arg.message) >= 36
     /\ DeclaredCount(arg.message) = <<0, 0, 0, 0>>)
    => (ret.exc = "" /\ ret.val # None /\ ret.val.parameters = <<>>)

\* a header declaring no parameter was followed by two whole records, and
\* the message returned has no parameter
C2_Witness ==
  /\ Returned("parse_message")
  /\ Len(arg.message) >= 36 + 24
  /\ DeclaredCount(arg.message) = <<0, 0, 0, 0>>
  /\ Len(arg.recs) = 2
  /\ ret.val # None
  /\ ret.val.parameters = <<>>

\* a record the encoders of the tests build whose length on the wire is the
\* length its decoder reports: an integer, or a string that needs no padding
WellFormed(r) ==
  \/ r.kind = "int"
  \/ r.kind = "str" /\ Len(encode_utf8(r.text)) % 4 = 0

\* the value the record r was encoded from
EncodedValue(r) == IF r.kind = "int" THEN IntValue(r.int) ELSE TextValue(r.text)

\* the number of well-formed records that lead the body recs and lie whole
\* in its first len bytes
LeadingWellFormed(recs, len) ==
  Cardinality({i \in 1..Len(recs) :
                 \A j \in 1..i : /\ WellFormed(recs[j])
                                 /\ Len(EncodeRecords(SubSeq(recs, 1, j))) <= len})

\* C3: for every buffer and every declared count _parse_pcf_parameters
\* returns a list without raising, and the list starts with the records that
\* precede the first truncated, oversized or unsupported one (as many of
\* them as the declared count allows)
C3_NeverRaisesKeepsPrefix ==
  Returned("_parse_pcf_parameters")
    => /\ ret.exc = ""
       /\ \A i \in 1..LeadingWellFormed(arg.recs, Len(arg.param_bytes)) :
            (~ LongAtMost(arg.count, i - 1))
              => /\ i <= Len(ret.val)
                 /\ ret.val[i].parameter_id = arg.recs[i].id
                 /\ ret.val[i].value = EncodedValue(arg.recs[i])

\* an integer record was followed by a string record that is not UTF-8 and
\* is cut short: the call returned a list that starts with the integer
C3_Witness ==
  /\ Returned("_parse_pcf_parameters")
  /\ Len(arg.recs) = 2
  /\ arg.recs[1].kind = "int"
  /\ arg.recs[2].id = Long(2001)
  /\ arg.cut = 5
  /\ arg.count = Long(2)
  /\ ret.exc = ""
  /\ Len(ret.val) >= 1
  /\ ret.val[1].value = IntValue(Long(42))

\* the offset at which the i-th returned record was decoded
RECURSIVE OffsetOf(_, _)
OffsetOf(parameters, i) ==
  IF i <= 1 THEN 0 ELSE OffsetOf(parameters, i - 1) + parameters[i - 1].total_length

\* C4: every record _parse_pcf_parameters returns has a total_length of at
\* least 8 and of at most the bytes that remained at the offset where it was
\* decoded, so that the running offset never exceeds the buffer length
C4_LengthWithinRemaining ==
  (Returned("_parse_pcf_parameters") /\ ret.exc = "")
    => \A i \in 1..Len(ret.val) :
         /\ ret.val[i].total_length >= 8
         /\ OffsetOf(ret.val, i) + ret.val[i].total_length <= Len(arg.param_bytes)

\* C5: _parse_pcf_parameters decodes at most min(declared count, 1000)
\* records: the list returned for a declared count of 2,000,000 has at most
\* 1000 records, however long the buffer is
C5_AtMostThousandRecords ==
  (Returned("_parse_pcf_parameters") /\ ret.exc = "")
    => /\ Len(ret.val) <= 1000
       /\ LongAtMost(arg.count, 1000)
            => (Len(ret.val) = 0 \/ Len(ret.val) <= Small(arg.count))

\* the record r is built by an encoder of the tests
FromTestEncoder(r) == r.kind \in {"int", "str"}

\* the type the encoder of the tests writes for the record r
EncodedType(r) == IF r.kind = "int" THEN Long(3) ELSE Long(4)

\* C6: for every message built as a header declaring n parameters followed
\* by n records of the tests' encoders (12-byte integers; strings that
\* declare their unpadded length and are zero-padded to a 4-byte boundary),
\* parse_message returns exactly n parameters in wire order, each with the
\* id, type and value encoded, and a non-zero id
C6_EncodedMessagesRoundTrip ==
  (Returned("parse_message") /\ arg.cut = 0 /\ arg.count = Long(Len(arg.recs))
     /\ \A i \in 1..Len(arg.recs) : FromTestEncoder(arg.recs[i]))
    => /\ ret.exc = ""
       /\ ret.val # None
       /\ Len(ret.val.parameters) = Len(arg.recs)
       /\ \A i \in 1..Len(arg.recs) :
            /\ ret.val.parameters[i].parameter_id = arg.recs[i].id
            /\ ret.val.parameters[i].parameter_id # Long(0)
            /\ ret.val.parameters[i].parameter_type = EncodedType(arg.recs[i])
            /\ ret.val.parameters[i].value = EncodedValue(arg.recs[i])

---------------------------------------------------------------------------
(* Properties of the record decoders *)

\* C7 as stated: integer round trip: for every id and every 32-bit value
\* v, decoding the 12-byte record (id, type integer, v big-endian) yields
\* the value v and a total_length of exactly 12
C7_IntegerRoundTripExact ==
  Returned("_parse_integer_parameter")
    => /\ Len(arg.param_bytes) = 12
       /\ ret.exc = ""
       /\ ret.val.value = IntValue(arg.value)
       /\ ret.val.total_length = 12

\* the int v + 2^32
Plus2To32(v) == [hi |-> v.hi + 65536, lo |-> v.lo]

\* C7 amended: for every id and every value v of 0 .. 2^32 - 1 the decoded
\* value is v; a negative v, written in two's complement, is decoded to
\* v + 2^32; total_length is exactly 12
C7_IntegerRoundTripUnsigned ==
  Returned("_parse_integer_parameter")
    => /\ Len(arg.param_bytes) = 12
       /\ ret.exc = ""
       /\ arg.value.hi >= 0 => ret.val.value = IntValue(arg.value)
       /\ arg.value.hi < 0 => ret.val.value = IntValue(Plus2To32(arg.value))
       /\ ret.val.total_length = 12

\* the record of the value 2^32 - 1 under the id 3004 was decoded to it
C7_Witness ==
  /\ Returned("_parse_integer_parameter")
  /\ arg.id = Long(3004)
  /\ ~ arg.signed
  /\ arg.value = [hi |-> 65535, lo |-> 65535]
  /\ arg.param_bytes[9] = 255
  /\ ret.val.value.int = [hi |-> 65535, lo |-> 65535]
  /\ ret.val.total_length = 12

\* the byte length of the text t
ByteLength(t) == Len(encode_utf8(t))

UpToLastNonNul(t) ==
  SubSeq(t, 1, Cardinality({i \in 1..Len(t) : \E j \in i..Len(t) : t[j] # 0}))

---------------------------------------------------------------------------
(* Properties of the name resolvers *)

\* the names of the records of a result of parse_message or of
\* _parse_pcf_parameters follow the table of the constants module
NamedByConstants(parameters) ==
  \A i \in 1..Len(parameters) :
    parameters[i].parameter_name = constants_get_parameter_name(parameters[i].parameter_id)

\* C9: the name attached to a decoded record is the name the constants
\* module gives its id: PCFParser.get_parameter_name(id) equals
\* mq_constants.get_parameter_name(id) for every id, a record with id 2016
\* is named MQCA_Q_NAME and one with id 2024 MQCA_APPL_NAME
C9_ResolversAgree ==
  /\ Returned("get_parameter_name")
       => /\ ret.val = constants_get_parameter_name(arg.param_id)
          /\ arg.param_id = Long(2016) => ret.val = <<"MQCA_Q_NAME">>
          /\ arg.param_id = Long(2024) => ret.val = <<"MQCA_APPL_NAME">>
  /\ (Returned("_parse_pcf_parameters") /\ ret.exc = "") => NamedByConstants(ret.val)

\* the table a resolver reads
TableOf(o) == IF o = "get_parameter_name" THEN param_names ELSE PARAMETER_NAMES

UpperHexDigits == {"0", "1", "2", "3", "4", "5", "6", "7",
                   "8", "9", "A", "B", "C", "D", "E", "F"}

DecimalDigits == {"0", "1", "2", "3", "4", "5", "6", "7", "8", "9"}

\* the value of a digit
DigitValue(c) ==
  CHOOSE n \in 0..15 :
    c = <<"0", "1", "2", "3", "4", "5", "6", "7",
          "8", "9", "A", "B", "C", "D", "E", "F">>[n + 1]

\* the int that four hexadecimal digits write
HexValue4(h) ==
  DigitValue(h[1]) * 4096 + DigitValue(h[2]) * 256 + DigitValue(h[3]) * 16 + DigitValue(h[4])

\* the int that the decimal digits d write after the int acc, on limbs
RECURSIVE DecimalValue(_, _)
DecimalValue(d, acc) ==
  IF d = <<>> THEN acc
  ELSE LET low == acc.lo * 10 + DigitValue(d[1])
       IN  DecimalValue(Tail(d), [hi |-> acc.hi * 10 + (low \div 65536), lo |-> low % 65536])

\* name is exactly 'UNKNOWN_PARAM_' + the decimal id + '_0x' + the id as 8
\* uppercase hexadecimal digits
IsUnknownNameOf(name, id) ==
  /\ Len(name) >= 11 /\ Len(name) <= 20
  /\ name[1] = "UNKNOWN_PARAM_"
  /\ name[Len(name) - 8] = "_0x"
  /\ LET dec == SubSeq(name, 2, Len(name) - 9)
         hex == SubSeq(name, Len(name) - 7, Len(name))
     IN  /\ \A i \in 1..Len(dec) : dec[i] \in DecimalDigits
         /\ Len(dec) = 1 \/ dec[1] # "0"
         /\ DecimalValue(dec, Long(0)) = id
         /\ \A i \in 1..8 : hex[i] \in UpperHexDigits
         /\ HexValue4(SubSeq(hex, 1, 4)) = id.hi
         /\ HexValue4(SubSeq(hex, 5, 8)) = id.lo

\* C10: each name resolver is total: for every 32-bit id it returns a name;
\* the name of the id's key when the id is a key of the resolver's table,
\* and otherwise exactly 'UNKNOWN_PARAM_' + decimal id + '_0x' + the id as
\* 8 uppercase hexadecimal digits
C10_ResolverTotal ==
  (Returned("get_parameter_name") \/ Returned("mq_constants.get_parameter_name"))
    => /\ ret.exc = ""
       /\ LET table == TableOf(op)
              keyed == {i \in DOMAIN table : Long(table[i][1]) = arg.param_id}
          IN  IF keyed # {}
              THEN \E i \in keyed : /\ ret.val = <<table[i][2]>>
                                    /\ \A j \in keyed : j <= i
              ELSE IsUnknownNameOf(ret.val, arg.param_id)

\* the id 2^32 - 1, a key of neither table, was resolved by the parser
C10_Witness ==
  /\ Returned("get_parameter_name")
  /\ arg.param_id = [hi |-> 65535, lo |-> 65535]
  /\ ret.val = <<"UNKNOWN_PARAM_", "4", "2", "9", "4", "9", "6", "7", "2", "9", "5",
                 "_0x", "F", "F", "F", "F", "F", "F", "F", "F">>

---------------------------------------------------------------------------
(* Properties of the tables *)

\* the constants of mq_constants that PARAMETER_NAMES registers under their
\* own name
NamedConstants ==
  { <<MQCA_Q_NAME, "MQCA_Q_NAME">>, <<MQCA_Q_MGR_NAME, "MQCA_Q_MGR_NAME">>,
    <<MQCA_CHANNEL_NAME, "MQCA_CHANNEL_NAME">>,
    <<MQCA_CONNECTION_NAME, "MQCA_CONNECTION_NAME">>,
    <<MQCA_APPL_NAME, "MQCA_APPL_NAME">>, <<MQIA_Q_TYPE, "MQIA_Q_TYPE">>,
    <<MQIA_CURRENT_Q_DEPTH, "MQIA_CURRENT_Q_DEPTH">>,
    <<MQIA_OPEN_INPUT_COUNT, "MQIA_OPEN_INPUT_COUNT">>,
    <<MQIA_OPEN_OUTPUT_COUNT, "MQIA_OPEN_OUTPUT_COUNT">>,
    <<MQIA_HIGH_Q_DEPTH, "MQIA_HIGH_Q_DEPTH">>,
    <<MQIA_MSG_DEQ_COUNT, "MQIA_MSG_DEQ_COUNT">>,
    <<MQIA_MSG_ENQ_COUNT, "MQIA_MSG_ENQ_COUNT">>,
    <<MQIACH_MSGS, "MQIACH_MSGS">>, <<MQIACH_BYTES, "MQIACH_BYTES">>,
    <<MQIACH_BATCHES, "MQIACH_BATCHES">>, <<MQIAMO_CLOSES, "MQIAMO_CLOSES">>,
    <<MQIAMO_PUTS, "MQIAMO_PUTS">>, <<MQIAMO_GETS, "MQIAMO_GETS">>,
    <<MQIAMO_COMMITS, "MQIAMO_COMMITS">>, <<MQIAMO_BACKOUTS, "MQIAMO_BACKOUTS">>,
    <<MQCACF_COMMAND_TIME, "MQCACF_COMMAND_TIME">>,
    <<MQIACF_SEQUENCE_NUMBER, "MQIACF_SEQUENCE_NUMBER">> }

\* no entry of the table for the id has the id of an earlier entry with a
\* different name
WrittenOnce(table, id) ==
  \A i, j \in DOMAIN table :
    (i < j /\ Long(table[i][1]) = id /\ table[j][1] = table[i][1])
      => table[j][2] = table[i][2]

\* C11: no identifier is assigned two different names while a resolver
\* table is built (no entry has the id of an earlier entry with a different
\* name), so for every constant C that mq_constants registers under the name
\* 'C', such as MQIAMO_GETS, MQIAMO_PUTS, MQIAMO_CLOSES and MQIACH_MSGS,
\* get_parameter_name(C) returns 'C'
C11_NoIdReassigned ==
  /\ Returned("mq_constants.get_parameter_name")
       => /\ WrittenOnce(PARAMETER_NAMES, arg.param_id)
          /\ \A c \in NamedConstants :
               Long(c[1]) = arg.param_id => ret.val = <<c[2]>>
  /\ Returned("get_parameter_name") => WrittenOnce(param_names, arg.param_id)


---------------------------------------------------------------------------
(* Properties of the extractors *)

\* the message of the call has a parameter list
HasParameterList == arg.parsed_message # None /\ "parameters" \in arg.parsed_message.keys

\* a call of extract_queue_operations has returned, for the first time or again
QueueOperationsReturned ==
  pc \in {"returned", "repeated"} /\ op = "extract_queue_operations"

\* C12: for every parameter list, the dict extract_queue_operations returns
\* has has_readers = (get_count > 0 or browse_count > 0 or
\* open_input_count > 0) and has_writers = (put_count > 0 or
\* open_output_count > 0), on the counters of that same dict
C12_ReadersWritersFromCounters ==
  (QueueOperationsReturned /\ HasParameterList)
    => /\ ret.val.has_readers = (\/ Small(ret.val.get_count) > 0
                                 \/ Small(ret.val.browse_count) > 0
                                 \/ Small(ret.val.open_input_count) > 0)
       /\ ret.val.has_writers = (\/ Small(ret.val.put_count) > 0
                                 \/ Small(ret.val.open_output_count) > 0)

\* a producer: open for output three times, not open for input, no gets;
\* it is a writer and not a reader
C12_Witness ==
  /\ QueueOperationsReturned /\ HasParameterList
  /\ ret.val.open_output_count = Long(3)
  /\ ret.val.open_input_count = Long(0)
  /\ ret.val.get_count = Long(0)
  /\ ret.val.has_writers /\ ~ret.val.has_readers

\* the name extract_queue_operations reads each field from
QueueFieldNames ==
  [queue_name        |-> <<"MQCA_Q_NAME">>,
   get_count         |-> <<"MQIA_GET_COUNT">>,
   put_count         |-> <<"MQIA_PUT_COUNT">>,
   browse_count      |-> <<"MQIA_BROWSE_COUNT">>,
   open_input_count  |-> <<"MQIA_OPEN_INPUT_COUNT">>,
   open_output_count |-> <<"MQIA_OPEN_OUTPUT_COUNT">>,
   enqueue_count     |-> <<"MQIA_MSG_ENQ_COUNT">>,
   dequeue_count     |-> <<"MQIA_MSG_DEQ_COUNT">>,
   current_depth     |-> <<"MQIA_CURRENT_Q_DEPTH">>,
   max_depth         |-> <<"MQIA_MAX_Q_DEPTH">>,
   put_bytes         |-> <<"MQIA_PUT_BYTES">>,
   get_bytes         |-> <<"MQIA_GET_BYTES">>,
   put_time          |-> <<"MQIA_PUT_TIME">>,
   get_time          |-> <<"MQIA_GET_TIME">>]

\* the name extract_connection_info reads each field from
ConnectionFieldNames ==
  [channel_name     |-> <<"MQCACH_CHANNEL_NAME">>,
   connection_name  |-> <<"MQCACH_CONNECTION_NAME">>,
   application_name |-> <<"MQCA_APPL_NAME">>,
   user_id          |-> <<"MQCACH_USER_ID">>,
   connect_count    |-> <<"MQIA_CONNECT_COUNT">>,
   disconnect_count |-> <<"MQIA_DISC_COUNT">>,
   channel_type     |-> <<"MQIACH_CHANNEL_TYPE">>,
   transport_type   |-> <<"MQIACH_TRANSPORT_TYPE">>,
   channel_status   |-> <<"MQIACH_CHANNEL_STATUS">>]

\* the fields that hold a str
StringFields == {"queue_name", "channel_name", "connection_name", "application_name", "user_id"}

\* the positions of the parameters of the call that are named name
NamedPositions(name) ==
  {i \in 1..Len(arg.parsed_message.parameters) :
     arg.parsed_message.parameters[i].parameter_name = name}

\* the positions of the parameters of the call that are named name and hold a
\* value of the type of the field
TypedPositions(field, name) ==
  {i \in NamedPositions(name) :
     IF field \in StringFields THEN IsStr(arg.parsed_message.parameters[i].value)
     ELSE IsInt(arg.parsed_message.parameters[i].value)}

\* the greatest number of a non-empty set of numbers
Last(S) == CHOOSE i \in S : \A j \in S : j <= i

\* a value as a field holding it unchanged would hold it
AsField(value) == IF IsInt(value) THEN value.int ELSE value

\* the value a field takes from a parameter value of its own type
AsWritten(field, value) ==
  IF field \in StringFields THEN StripValue(value)
  ELSE IF field = "channel_type" THEN TokValue(_get_channel_type_name(value.int))
  ELSE IF field = "transport_type" THEN TokValue(_get_transport_type_name(value.int))
  ELSE IF field = "channel_status" THEN TokValue(_get_channel_status_name(value.int))
  ELSE value.int

\* the field of the result is the value of the last parameter named name,
\* and the default if there is none
LastNamedWins(field, name, default) ==
  IF NamedPositions(name) = {} THEN ret.val[field] = default
  ELSE ret.val[field]
         = AsField(arg.parsed_message.parameters[Last(NamedPositions(name))].value)

\* the field of the result comes from the last parameter named name whose
\* value has the type of the field, and is the default if there is none
LastTypedWins(field, name, default) ==
  IF TypedPositions(field, name) = {} THEN ret.val[field] = default
  ELSE ret.val[field]
         = AsWritten(field, arg.parsed_message.parameters[Last(TypedPositions(field, name))].value)

\* a call of extract_connection_info has returned
ConnectionInfoReturned == pc = "returned" /\ op = "extract_connection_info"

\* C13 as stated: each field of the two records is the value of the last
\* parameter in stream order whose resolved name is the field's name, and the
\* default if no parameter has that name
C13_LastWriteWins ==
  /\ (QueueOperationsReturned /\ HasParameterList)
       => \A f \in DOMAIN QueueFieldNames : LastNamedWins(f, QueueFieldNames[f], operations[f])
  /\ (ConnectionInfoReturned /\ HasParameterList)
       => \A f \in DOMAIN ConnectionFieldNames :
            LastNamedWins(f, ConnectionFieldNames[f], connection_info[f])

\* C13, amended: each field of the two records comes from the last parameter
\* in stream order whose resolved name is the field's name and whose value
\* has the field's type (a str stripped of surrounding whitespace, an int
\* itself, a code the name its enumeration gives it), and is the default if
\* there is no such parameter; every other parameter changes no field
C13_LastTypedWriteWins ==
  /\ (QueueOperationsReturned /\ HasParameterList)
       => \A f \in DOMAIN QueueFieldNames : LastTypedWins(f, QueueFieldNames[f], operations[f])
  /\ (ConnectionInfoReturned /\ HasParameterList)
       => \A f \in DOMAIN ConnectionFieldNames :
            LastTypedWins(f, ConnectionFieldNames[f], connection_info[f])

\* MQIA_GET_COUNT twice with different values: the second one is returned
C13_Witness ==
  /\ QueueOperationsReturned /\ HasParameterList
  /\ Len(arg.parsed_message.parameters) = 2
  /\ \A i \in 1..2 : /\ arg.parsed_message.parameters[i].parameter_name = <<"MQIA_GET_COUNT">>
                     /\ IsInt(arg.parsed_message.parameters[i].value)
  /\ arg.parsed_message.parameters[1].value # arg.parsed_message.parameters[2].value
  /\ ret.val.get_count = arg.parsed_message.parameters[2].value.int

\* the message of the call has no parameters: it is None, it has no
\* parameter list, or its parameter list is empty
NoParameters == ~HasParameterList \/ arg.parsed_message.parameters = <<>>

\* C14: for every message with no parameters extract_queue_operations
\* returns every documented field with its default (queue_name 'unknown',
\* the counters 0, has_readers and has_writers false) and
\* extract_connection_info returns every documented field with its default
C14_DefaultsWithoutParameters ==
  /\ (QueueOperationsReturned /\ NoParameters)
       => ret.val = [has_readers |-> FALSE, has_writers |-> FALSE] @@ operations
  /\ (ConnectionInfoReturned /\ NoParameters)
       => ret.val = connection_info

\* C15: a second call of extract_queue_operations on the same message
\* returns a result equal to the first one's, also when the same parser
\* processed another message in between, and the parser instance is after
\* every call what it was when constructed
C15_Idempotent ==
  /\ pc = "repeated"
       => /\ arg.parsed_message = first.parsed_message
          /\ ret.val = first.val
  /\ parser = PCFParser

\* a message with a queue name is extracted, another message is processed,
\* and the first message is extracted again with the same result
C15_Witness ==
  /\ pc = "repeated"
  /\ first.between
  /\ HasParameterList
  /\ first.val.queue_name # operations.queue_name
  /\ Positive(first.val.get_count)
  /\ ret.val = first.val

---------------------------------------------------------------------------
(* Properties of the header decoder *)

\* parse_message has returned a message, which holds a header
HeaderReturned == Returned("parse_message") /\ ret.exc = "" /\ ret.val # None

\* the header of the message returned flags corruption
CorruptionDetected ==
  /\ "corruption_detected" \in DOMAIN ret.val.header
  /\ ret.val.header.corruption_detected = TRUE

\* C16: when the header's structure_type is the corrupted signature,
\* parse_message returns a message, whose header has corruption_detected
\* true and, as message type, the corrupted sentinel instead of a kind
\* derived from the structure type
C16_CorruptedSignatureFlagged ==
  (Returned("parse_message") /\ Len(arg.message) >= PCF_HEADER_SIZE
   /\ Slice(arg.message, 0, 4) = to_bytes4(Long(CorruptedSignature)))
    => /\ HeaderReturned
       /\ CorruptionDetected
       /\ ret.val.header.message_type
            # _determine_message_type(ret.val.header.structure_type)

\* C17: when the header's parameter_count is above 1,000,000 the header has
\* corruption_detected true and a reason, its message type is still the one
\* derived from the structure type, and the parameter decoder was run
C17_ImplausibleCountFlagged ==
  (HeaderReturned /\ ~LongAtMost(ret.val.header.parameter_count, 1000000))
    => /\ CorruptionDetected
       /\ "corruption_info" \in DOMAIN ret.val.header
       /\ ret.val.header.message_type
            = _determine_message_type(ret.val.header.structure_type)
       /\ calls = <<"_parse_pcf_header", "_parse_pcf_parameters">>

---------------------------------------------------------------------------
(* Properties of extract_application_info *)

\* the three tiers, in the order of the claim
Tiers == <<"_parse_structured_pcf", "_extract_by_patterns", "_brute_force_extraction">>

\* the result is the one of the tier named method: its name, its address,
\* its found flag, and its name as extraction_method
DecidedBy(tier_result, method) ==
  /\ tier_result.extraction_method = method
  /\ ret.val.extraction_method = method
  /\ ret.val.raw_data_found
  /\ ret.val.application_name = tier_result.application_name
  /\ ret.val.client_ip = tier_result.client_ip

\* C18: the tiers are run in the order structured, pattern-based,
\* brute-force; the first tier that returns found = true decides the result
\* (extraction_method, name and address are that tier's) and no tier after
\* it is run
C18_FirstFoundTierDecides ==
  Returned("extract_application_info")
    => /\ calls = SubSeq(Tiers, 1, Len(calls))
       /\ _parse_structured_pcf(arg.message_data).raw_data_found
            => /\ calls = SubSeq(Tiers, 1, 1)
               /\ DecidedBy(_parse_structured_pcf(arg.message_data), "structured_pcf")
       /\ (/\ ~_parse_structured_pcf(arg.message_data).raw_data_found
           /\ _extract_by_patterns(arg.message_data).exc = ""
           /\ _extract_by_patterns(arg.message_data).val.raw_data_found)
            => /\ calls = SubSeq(Tiers, 1, 2)
               /\ DecidedBy(_extract_by_patterns(arg.message_data).val, "pattern_matching")
       /\ (/\ ~_parse_structured_pcf(arg.message_data).raw_data_found
           /\ _extract_by_patterns(arg.message_data).exc = ""
           /\ ~_extract_by_patterns(arg.message_data).val.raw_data_found
           /\ _brute_force_extraction(arg.message_data).raw_data_found)
            => /\ calls = Tiers
               /\ DecidedBy(_brute_force_extraction(arg.message_data), "brute_force")

\* the structured tier found the name in a buffer in which the pattern tier
\* finds something too; the result is the structured one and the pattern
\* tier was not run
C18_Witness ==
  /\ Returned("extract_application_info")
  /\ ret.val.extraction_method = "structured_pcf"
  /\ ret.val.application_name = FileName
  /\ _extract_by_patterns(arg.message_data).exc = ""
  /\ _extract_by_patterns(arg.message_data).val.raw_data_found
  /\ calls = <<"_parse_structured_pcf">>

\* C19: extract_application_info never raises, it returns found = false
\* only when no tier can find a name or an address in the buffer, and a tier
\* that fails is followed by the next tier
C19_FloorOnlyWhenNothingFound ==
  Returned("extract_application_info")
    => /\ ret.exc = ""
       /\ ~ret.val.raw_data_found
            => /\ ~_parse_structured_pcf(arg.message_data).raw_data_found
               /\ _extract_by_patterns(arg.message_data).exc = ""
                    => ~_extract_by_patterns(arg.message_data).val.raw_data_found
               /\ ~_brute_force_extraction(arg.message_data).raw_data_found
       /\ (/\ Len(calls) >= 2
           /\ _extract_by_patterns(arg.message_data).exc # "")
            => calls = Tiers

\* the buffer is an executable-style file name immediately followed by a
\* dotted-quad address with a parenthesised port, possibly between bytes
\* that belong to neither; it is too short to hold a header
FallbackScenario ==
  /\ Len(arg.message_data) < PCF_HEADER_SIZE
  /\ \E k \in 1..(Len(arg.pieces) - 1) :
       /\ arg.pieces[k] = FileName
       /\ arg.pieces[k + 1] = AddressWithPort
       /\ \A j \in (1..Len(arg.pieces)) \ {k, k + 1} : arg.pieces[j] \in {<<0>>, <<255>>}

\* C20: for a raw buffer without a header that holds a file name immediately
\* followed by an address with a parenthesised port, the result has found =
\* true, the pattern tier as extraction_method, the file name as
\* application_name and the address as client_ip
C20_FallbackExtraction ==
  (Returned("extract_application_info") /\ FallbackScenario)
    => /\ ret.val.raw_data_found
       /\ ret.val.extraction_method = "pattern_matching"
       /\ ret.val.application_name = FileName
       /\ ret.val.client_ip = SubSeq(AddressWithPort, 1, 7)
---------------------------------------------------------------------------
(* Properties of the loop of the parameter stream decoder *)

\* C21: forward progress: every pass of the loop of _parse_pcf_parameters
\* that does not leave the loop increases the offset by at least 8, so for
\* every buffer of length L and every declared count (2^32 - 1 included)
\* the loop ends after at most L / 8 + 1 passes
C21_ForwardProgress ==
  Returned("_parse_pcf_parameters")
    => /\ \A i \in 1..(Len(loop.offsets) - 1) :
            loop.offsets[i + 1] >= loop.offsets[i] + 8
       /\ (loop.offsets # <<>> /\ ~ loop.stopped)
            => loop.offset >= loop.offsets[Len(loop.offsets)] + 8
       /\ Len(loop.offsets) <= (Len(arg.param_bytes) \div 8) + 1

\* a buffer of two eight-byte records was decoded under a declared count of
\* 2^32 - 1: the loop made three passes, the third one leaving it
C21_Witness ==
  /\ Returned("_parse_pcf_parameters")
  /\ arg.count = AllOnes
  /\ Len(arg.param_bytes) = 16
  /\ loop.offsets = <<0, 8, 16>>
  /\ loop.stopped
  /\ Len(ret.val) = 2

\* the eight bytes at the offset a pass started at are all zero: the id and
\* the declared type of the record there are both zero
ZeroRecordAt(param_bytes, offset) ==
  /\ offset + 8 <= Len(param_bytes)
  /\ Slice(param_bytes, offset, offset + 8) = Zeros(8)

\* C22: a record whose id and declared type are both zero consumes exactly
\* 8 bytes, decoding continues at the next offset, and the record is not in
\* the parameter list _parse_pcf_parameters returns
C22_ZeroRecordSkipped ==
  (Returned("_parse_pcf_parameters") /\ ret.exc = "")
    => /\ \A i \in 1..Len(loop.offsets) :
            ZeroRecordAt(arg.param_bytes, loop.offsets[i])
              => IF i < Len(loop.offsets)
                 THEN loop.offsets[i + 1] = loop.offsets[i] + 8
                 ELSE loop.offset = loop.offsets[i] + 8
       /\ \A k \in 1..Len(ret.val) :
            ~ (ret.val[k].parameter_id = Long(0) /\ ret.val[k].parameter_type = Long(0))

\* C23: no parameter whose id exceeds the 24-bit threshold (id >
\* 16,777,215) is in the list _parse_pcf_parameters returns, for any buffer
C23_NoIdAboveThreshold ==
  (Returned("_parse_pcf_parameters") /\ ret.exc = "")
    => \A k \in 1..Len(ret.val) : LongAtMost(ret.val[k].parameter_id, 16777215)

\* the declared types _parse_single_parameter dispatches on: integer,
\* string, byte string and integer list
SupportedTypes ==
  {Long(MQCFT_INTEGER), Long(MQCFT_STRING), Long(MQCFT_BYTE_STRING), Long(MQCFT_INTEGER_LIST)}

\* C24: for a record whose declared type is none of integer, string, byte
\* string or integer list, the decoder emits a placeholder value naming the
\* type number and a consumed length of at least 12 bytes
C24_UnsupportedPlaceholderLength ==
  (Returned("_parse_pcf_parameters") /\ ret.exc = "")
    => \A k \in 1..Len(ret.val) :
         ret.val[k].parameter_type \notin SupportedTypes
           => /\ ret.val[k].value
                   = TokValue(<<"unsupported_type_">> \o FormatDecimal(ret.val[k].parameter_type))
              /\ ret.val[k].total_length >= 12

---------------------------------------------------------------------------
(* Properties of the decoded values *)

\* C25: the header fields are decoded as big-endian signed 32-bit integers:
\* a field whose four bytes are FF FF FF FF decodes to -1, so a header
\* encoded with parameter_count = -1 yields parameter_count = -1 and an
\* empty parameter list
C25_HeaderFieldsSigned ==
  (Returned("parse_message") /\ Len(arg.message) >= 36
     /\ DeclaredCount(arg.message) = <<255, 255, 255, 255>>)
    => /\ ret.exc = ""
       /\ ret.val # None
       /\ ret.val.header.parameter_count = MinusOne
       /\ ret.val.parameters = <<>>

\* the length a string record declares in its bytes 8 .. 11 (below 2^16)
DeclaredLength(param_bytes) == (param_bytes[11] * 256) + param_bytes[12]

\* C26: the value of a decoded string parameter never ends with a NUL or a
\* space: all trailing NUL and space padding inside the declared length is
\* removed, while the consumed length still counts the padded bytes
C26_NoTrailingNulOrSpace ==
  (Returned("_parse_string_parameter") /\ ret.exc = "")
    => /\ ret.val.value.text # <<>>
            => ret.val.value.text[Len(ret.val.value.text)] \notin {0, 32}
       /\ ret.val.total_length = 12 + DeclaredLength(arg.param_bytes)

---------------------------------------------------------------------------
(* Properties of the structured tier *)

\* the offsets in the message at which the passes of the loop of
\* _parse_pcf_parameters start when parse_message decodes it
DecoderOffsets(message, count) ==
  LET st == ParametersLoop(Slice(message, PCF_HEADER_SIZE, Len(message)), count)
  IN  [i \in 1..Len(st.offsets) |-> PCF_HEADER_SIZE + st.offsets[i]]

\* the application-name string records of a message
ApplicationNameRecords(recs) ==
  {i \in 1..Len(recs) : recs[i].kind = "str" /\ recs[i].id \in {Long(2001), Long(3001)}}

\* C27: on a well-formed message (36-byte header, then records laid out as
\* 4-byte id, 4-byte type code, type-dependent body) the structured tier
\* visits the same record boundaries as the parameter stream decoder, and
\* when the message has an application-name string record it reports
\* found = true with that record's text
C27_StructuredTierFollowsDecoder ==
  Returned("_parse_structured_pcf")
    => /\ loop.offsets = DecoderOffsets(arg.data, arg.count)
       /\ ApplicationNameRecords(arg.recs) # {}
            => /\ ret.val.raw_data_found
               /\ \E i \in ApplicationNameRecords(arg.recs) :
                    ret.val.application_name = arg.recs[i].text

---------------------------------------------------------------------------
(* Properties of the collection summary *)

\* the accounting messages of the collection that the PCF parser decoded
DecodedByParser == {i \in 1..Len(arg.accounting_data) : "pcf_data" \in DOMAIN arg.accounting_data[i]}

\* has_readers / has_writers as derived for a decoded message
DerivedFlag(acc_msg, flag) == acc_msg.connection_info_legacy[flag]

\* the messages the parser did not decode and the fallback flagged
FlaggedByFallback(flag) ==
  {i \in 1..Len(arg.accounting_data) :
     /\ i \notin DecodedByParser
     /\ arg.accounting_data[i].connection_info[flag]}

\* C28: for every accounting message that the PCF parser decodes, the
\* collection summary counts it in readers_identified exactly when its
\* derived has_readers is true and in writers_identified exactly when its
\* derived has_writers is true
C28_SummaryCountsDerivedFlags ==
  Returned("_generate_summary")
    => /\ ret.val.readers_identified
            = Cardinality({i \in DecodedByParser :
                             DerivedFlag(arg.accounting_data[i], "has_readers")})
              + Cardinality(FlaggedByFallback("has_readers"))
       /\ ret.val.writers_identified
            = Cardinality({i \in DecodedByParser :
                             DerivedFlag(arg.accounting_data[i], "has_writers")})
              + Cardinality(FlaggedByFallback("has_writers"))

---------------------------------------------------------------------------
(* Properties of main.py *)

Called(method) ==
  \E i \in 1..Len(calls) : calls[i] = method

\* C29: whenever single_collection is about to return after connect_to_mq
\* returned True, it has called disconnect_from_mq: on the path where both
\* queues are empty, on the normal path and on the paths where a later
\* step raises
C29_DisconnectsOnEveryPath ==
  (At("return") /\ collection.connected = TRUE) => Called("disconnect_from_mq")

\* run always disconnects after a successful connect
RunDisconnects ==
  (Returned("run") /\ arg.connected) => Called("disconnect_from_mq")

\* the normal path of single_collection disconnects
NormalPathDisconnects ==
  (At("return") /\ Called("format_output") /\ collection.result = 0)
    => Called("disconnect_from_mq")

\* the returns of single_collection that leave the connection open: with
\* both queues empty (code 0), and after an error of a later step (code 1)
EmptyQueuesLeak ==
  /\ At("return") /\ collection.connected = TRUE /\ collection.result = 0
  /\ ~ Called("disconnect_from_mq") /\ collection.reader.qmgr.is_connected

WriteErrorLeak ==
  /\ At("return") /\ collection.connected = TRUE /\ collection.result = 1
  /\ ~ Called("disconnect_from_mq") /\ collection.reader.qmgr.is_connected

\* C30: continuous_monitoring with max_cycles = N > 0 and no signal returns
\* after exactly N cycles; every cycle that was started has run to
\* completion when the function returns, whatever single_collection
\* returned; once shutdown_requested is set the loop test starts no cycle;
\* and with max_cycles > 0 or a signal handled the function returns
ExactlyMaxCycles ==
  (Returned("continuous_monitoring") /\ arg.max_cycles > 0 /\ arg.signal = None)
    => arg.cycle_count = arg.max_cycles /\ arg.finished = arg.max_cycles

CyclesRunToCompletion ==
  Returned("continuous_monitoring")
    => /\ arg.finished = arg.cycle_count
       /\ arg.signal # None
            => arg.cycle_count =
                 arg.signal.cycle_count + (IF arg.signal.during = "cycle" THEN 1 ELSE 0)

CycleStarts ==
  /\ monitoring # None
  /\ monitoring.pc = "while"
  /\ monitoring' # None
  /\ monitoring'.pc = "cycle"

\* C30: exactly N cycles without a signal, every started cycle completed,
\* no cycle started once shutdown is requested, and the function returns
C30_CyclesAndShutdown ==
  /\ [](ExactlyMaxCycles /\ CyclesRunToCompletion)
  /\ [][(monitoring # None /\ monitoring.shutdown_requested) => ~ CycleStarts]_vars
  /\ (monitoring # None /\ (monitoring.args.max_cycles > 0 \/ monitoring.shutdown_requested))
       ~> (monitoring = None)

\* a signal found the function in a cycle of a run of two cycles at most:
\* the cycle was completed, it failed, and the function returned after it
C30_Witness ==
  /\ Returned("continuous_monitoring")
  /\ arg.max_cycles = 2
  /\ arg.signal # None
  /\ arg.signal.during = "single_collection"
  /\ arg.cycle_count = 1
  /\ arg.finished = 1
  /\ arg.result = 1

====
